---- MODULE Spec2Model ----
(***************************************************************************)
(* Process orchestration core of agents-mcp (dist/agents.js): the          *)
(* AgentProcess record state machine and the AgentManager lifecycle        *)
(* operations, over a directory-backed store, per-agent log files and the  *)
(* launched OS processes.                                                  *)
(*                                                                         *)
(* Atomicity: JavaScript runs one callback at a time, so a manager call    *)
(* can only be interleaved with another call at an await.  spawn is cut    *)
(* between its admission check and its launch, stop is cut at its grace    *)
(* window; the child processes and the clock move between manager steps.   *)
(***************************************************************************)
EXTENDS Integers, Sequences, FiniteSets, TLC

\* ---------------------------------------------------------------- bounds
NumIds == 3          \* agent ids the store can hold at one time
NumLive == 2         \* agent ids the manager scope and the id scope use
NumCallers == 2      \* manager calls that can be in flight at one time
MaxLog == 2          \* lines the logs of the store hold in total
MaxClock == 1        \* ticks of the wall clock
maxConcurrent == 1   \* AgentManager.maxConcurrent (constructor argument)
maxAgents == 1       \* AgentManager.maxAgents (constructor argument)
cleanupAgeDays == 0  \* AgentManager.cleanupAgeDays, in clock ticks

\* AgentManager.filterByCwd: the working-directory scope of the manager.
\* A record's cwd is this directory ("here") or another one ("else").
filterByCwd == "here"
Cwds == {"here", "else"}

AgentIds == 1..NumIds
Callers == 1..NumCallers
NULL == 0 - 1

\* ---------------------------------------------------------------- state
VARIABLES
    agents,    \* AgentManager.agents: agentId -> AgentProcess (in memory)
    disk,      \* the store: agentId -> contents of <agentId>/meta.json
    log,       \* agentId -> lines of <agentId>/stdout.log
    mtime,     \* agentId -> last-modified time of stdout.log
    proc,      \* agentId -> state of the OS process launched for it: "none",
               \* "alive", "killed" (SIGKILL sent, the process entry not yet
               \* gone: signal 0 still succeeds) or "dead"
    clock,     \* Date.now()
    call,      \* caller -> the manager call it has in flight
    ctorInit,  \* TRUE while the constructor's initialize() has not run yet
    scans,     \* runs of loadExistingAgents by this manager instance (capped)
    last,      \* observation of the latest manager step
    arg,       \* the input of a function of the module applied on its own
    res,       \* what that function returned or raised, NULL before the call
    chain,     \* the conversation bookkeeping of the records, in memory
               \* (chain.agents) and in the store (chain.disk)
    cli,       \* the status command line: the agents directory it reads, the
               \* live pids, its clock and the wait loop
    monitor,   \* the completion monitor: its directory, its status memory, its
               \* poll callbacks and the notifications sent
    reader     \* one log read byte by byte: the file, the offset, the cache

vars == <<agents, disk, log, mtime, proc, clock, call, ctorInit, scans, last, arg, res, chain,
          cli, monitor, reader>>

\* ---------------------------------------------------------------- AgentStatus
AgentStatus ==
    [RUNNING |-> "running", COMPLETED |-> "completed",
     FAILED |-> "failed", STOPPED |-> "stopped"]

\* AgentStatus[key] || AgentStatus.RUNNING, as loadFromDisk evaluates it: the
\* enum object is indexed by its member NAMES, an unknown key is undefined.
StatusFromMeta(key) ==
    IF key \in DOMAIN AgentStatus THEN AgentStatus[key] ELSE AgentStatus.RUNNING

\* ---------------------------------------------------------------- log lines
\* A log line is one of: unstructured text ("raw"), a structured non-terminal
\* record ("msg"), a structured terminal record with a success or an error
\* discriminator ("success", "error"), or the wrapper's sentinel
\* {"__exit_code__": n} with n = 0 ("exit0") or n # 0 ("exit1").
\* ts is the record's own timestamp, NULL when it carries none.
ChildKinds == {"raw", "msg", "success", "error"}
SentinelKinds == {"exit0", "exit1"}

Line(kind, ts) == [kind |-> kind, ts |-> ts]

\* normalizeEvents(agentType, rawEvent) of parsers.js: the events of one
\* structured record.
normalizeEvents(kind) ==
    IF kind = "success" THEN <<[type |-> "result", status |-> "success"]>>
    ELSE IF kind = "error" THEN <<[type |-> "result", status |-> "error"]>>
    ELSE <<[type |-> "message", status |-> "none"]>>

\* The timestamp of a record's events taken from the log file alone.
resolvedTimestamp_FileTime(line, fallbackTimestamp) == fallbackTimestamp

\* extractTimestamp(rawEvent)?.toISOString() || fallbackTimestamp
resolvedTimestamp(line, fallbackTimestamp) ==
    IF line.ts # NULL THEN line.ts ELSE fallbackTimestamp

\* ---------------------------------------------------------------- AgentProcess
\* new AgentProcess(...): eventsCache = [], lastReadPos = 0
NewAgentProcess(pid, status, startedAt, completedAt, cwd) ==
    [pid |-> pid, status |-> status, startedAt |-> startedAt,
     completedAt |-> completedAt, cwd |-> cwd, eventsCache |-> <<>>, lastReadPos |-> 0]

RECURSIVE LatestOf(_, _)
LatestOf(events, latest) ==
    IF events = <<>> THEN latest
    ELSE LatestOf(Tail(events),
                  IF latest = NULL \/ Head(events).timestamp > latest
                  THEN Head(events).timestamp ELSE latest)

\* AgentProcess.getLatestEventTime
getLatestEventTime(rec) == LatestOf(rec.eventsCache, NULL)

\* The inner loop of readNewEvents over the events of one structured record.
RECURSIVE PushEvents(_, _, _)
PushEvents(rec, events, ts) ==
    IF events = <<>> THEN rec
    ELSE LET event == [type |-> Head(events).type,
                       status |-> Head(events).status, timestamp |-> ts]
             pushed == [rec EXCEPT !.eventsCache = Append(@, event)]
             isTerminalShape == event.type \in {"result", "turn.completed", "thread.completed"}
             next ==
                IF isTerminalShape /\ (event.status = "success" \/ event.type = "turn.completed")
                THEN [pushed EXCEPT !.status = AgentStatus.COMPLETED, !.completedAt = ts]
                ELSE IF isTerminalShape /\ event.status = "error"
                THEN [pushed EXCEPT !.status = AgentStatus.FAILED, !.completedAt = ts]
                ELSE pushed
         IN PushEvents(next, Tail(events), ts)

\* The loop body taking any exit-code sentinel for a success.
ParseLine_AnyExitCompletes(rec, line, fallbackTimestamp) ==
    IF line.kind \in SentinelKinds
    THEN [rec EXCEPT !.status = AgentStatus.COMPLETED,
                     !.completedAt = fallbackTimestamp]
    ELSE IF line.kind = "raw"
    THEN [rec EXCEPT !.eventsCache =
            Append(@, [type |-> "raw", status |-> "none", timestamp |-> fallbackTimestamp])]
    ELSE PushEvents(rec, normalizeEvents(line.kind),
                    resolvedTimestamp(line, fallbackTimestamp))

\* The body of the loop of readNewEvents for one line.
ParseLine(rec, line, fallbackTimestamp) ==
    IF line.kind \in SentinelKinds
    THEN [rec EXCEPT !.status = IF line.kind = "exit0" THEN AgentStatus.COMPLETED
                                 ELSE AgentStatus.FAILED,
                     !.completedAt = fallbackTimestamp]
    ELSE IF line.kind = "raw"
    THEN [rec EXCEPT !.eventsCache =
            Append(@, [type |-> "raw", status |-> "none", timestamp |-> fallbackTimestamp])]
    ELSE PushEvents(rec, normalizeEvents(line.kind),
                    resolvedTimestamp(line, fallbackTimestamp))

RECURSIVE ParseLines(_, _, _)
ParseLines(rec, lines, fallbackTimestamp) ==
    IF lines = <<>> THEN rec
    ELSE ParseLines(ParseLine(rec, Head(lines), fallbackTimestamp),
                    Tail(lines), fallbackTimestamp)

\* readNewEvents reading the log from its start on every call.
readNewEvents_FromStart(id, rec, st) ==
    IF id \notin DOMAIN st.disk THEN rec
    ELSE IF Len(st.log[id]) <= rec.lastReadPos THEN rec
    ELSE ParseLines([rec EXCEPT !.lastReadPos = Len(st.log[id])],
                    st.log[id], mtime[id])

\* AgentProcess.readNewEvents: parse the lines appended since lastReadPos.
\* st is the world as the call finds it: st.disk the meta files, st.log the
\* logs, st.proc the OS processes.
readNewEvents(id, rec, st) ==
    IF id \notin DOMAIN st.disk THEN rec                  \* fs.stat fails
    ELSE IF Len(st.log[id]) <= rec.lastReadPos THEN rec   \* bytesRead === 0
    ELSE ParseLines([rec EXCEPT !.lastReadPos = Len(st.log[id])],
                    SubSeq(st.log[id], rec.lastReadPos + 1, Len(st.log[id])),
                    mtime[id])

\* process.kill(pid, 0) succeeds
Signalable(p) == p \in {"alive", "killed"}

\* AgentProcess.isProcessAlive
isProcessAlive(rec, st) == rec.pid # NULL /\ Signalable(st.proc[rec.pid])

\* AgentProcess.reapProcess: null when the process answers signal 0, else 1.
reapProcess(rec, st) ==
    IF rec.pid = NULL THEN NULL
    ELSE IF Signalable(st.proc[rec.pid]) THEN NULL ELSE 1

\* getLatestEventTime() || startedAt || new Date()
fallbackCompletion(rec) ==
    LET latest == getLatestEventTime(rec)
    IN IF latest # NULL THEN latest
       ELSE IF rec.startedAt # NULL THEN rec.startedAt ELSE clock

\* The meta.json of a record saved before childProcess.pid is assigned.
MetaOf_BeforePid(rec) ==
    [pid |-> NULL, status |-> rec.status, started_at |-> rec.startedAt,
     completed_at |-> rec.completedAt, cwd |-> rec.cwd]

\* The object saveMeta writes to meta.json.
MetaOf(rec) ==
    [pid |-> rec.pid, status |-> rec.status, started_at |-> rec.startedAt,
     completed_at |-> rec.completedAt, cwd |-> rec.cwd]

\* AgentProcess.updateStatusFromProcess: the record afterwards, and whether
\* the call reached saveMeta.
updateStatusFromProcess(id, rec, st) ==
    IF rec.pid = NULL THEN [rec |-> rec, saved |-> FALSE]
    ELSE IF isProcessAlive(rec, st) THEN [rec |-> readNewEvents(id, rec, st), saved |-> FALSE]
    ELSE IF rec.status = AgentStatus.RUNNING
    THEN LET exitCode == reapProcess(rec, st)
             r1 == readNewEvents(id, rec, st)
             r2 == IF r1.status = AgentStatus.RUNNING
                   THEN [r1 EXCEPT !.status = IF exitCode # NULL /\ exitCode # 0
                                               THEN AgentStatus.FAILED
                                               ELSE AgentStatus.COMPLETED,
                                   !.completedAt = fallbackCompletion(r1)]
                   ELSE r1
         IN [rec |-> r2, saved |-> TRUE]
    ELSE IF rec.completedAt = NULL
    THEN LET r1 == readNewEvents(id, rec, st)
         IN [rec |-> [r1 EXCEPT !.completedAt = fallbackCompletion(r1)], saved |-> TRUE]
    ELSE [rec |-> rec, saved |-> TRUE]

\* AgentProcess.loadFromDisk: null (NULL) when there is no meta.json.
loadFromDisk(id, st) ==
    IF id \notin DOMAIN st.disk THEN NULL
    ELSE LET meta == st.disk[id]
         IN NewAgentProcess(meta.pid, StatusFromMeta(meta.status),
                            meta.started_at, meta.completed_at, meta.cwd)

\* Reconciliation that reads the log and leaves out updateStatusFromProcess.
Reconcile_ReadOnly(id, rec, st) == [rec |-> readNewEvents(id, rec, st), saved |-> FALSE]

\* readNewEvents() followed by updateStatusFromProcess(), as get and listAll
\* run them on one record.
Reconcile(id, rec, st) == updateStatusFromProcess(id, readNewEvents(id, rec, st), st)

\* ---------------------------------------------------------------- AgentManager
EmptyMap == [a \in {} |-> NULL]
Put(f, k, v) == [x \in DOMAIN f \cup {k} |-> IF x = k THEN v ELSE f[x]]
Drop(f, ks) == [x \in DOMAIN f \ ks |-> f[x]]

\* What a manager call works on: the agents map, the meta files, the logs,
\* the OS processes, and the ids whose meta.json the call has written so far.
Store == [agents |-> agents, disk |-> disk, log |-> log, proc |-> proc, wrote |-> {}]

\* The entries loadExistingAgents removes: completedAt < cutoffDate.
CleanedIds(st) ==
    {id \in DOMAIN st.disk :
        /\ st.disk[id].completed_at # NULL
        /\ st.disk[id].completed_at < clock - cleanupAgeDays}

\* The entries loadExistingAgents sets into the map: those it has not
\* removed and whose cwd is the manager's scope.
LoadedIds(st) ==
    {id \in DOMAIN st.disk \ CleanedIds(st) : st.disk[id].cwd = filterByCwd}

\* AgentManager.loadExistingAgents: every entry of the store is loaded; one
\* completed before the cutoff is removed from the store and skipped, one of
\* another cwd is skipped, any other is reconciled and set into the map.
LoadExistingAgents(st) ==
    LET cleaned == CleanedIds(st)
        kept == LoadedIds(st)
        st1 == [st EXCEPT !.disk = Drop(st.disk, cleaned),
                          !.log = [a \in AgentIds |-> IF a \in cleaned THEN <<>> ELSE st.log[a]]]
        upd == [id \in kept |-> updateStatusFromProcess(id, loadFromDisk(id, st), st1)]
        savedIds == {id \in kept : upd[id].saved}
    IN [agents |-> [a \in DOMAIN st.agents \cup kept |->
                        IF a \in kept THEN upd[a].rec ELSE st.agents[a]],
        disk |-> [a \in DOMAIN st1.disk |->
                        IF a \in savedIds THEN MetaOf(upd[a].rec) ELSE st.disk[a]],
        log |-> st1.log,
        proc |-> st.proc,
        wrote |-> st.wrote \cup savedIds]

\* AgentManager.initialize: it holds no memo of an earlier run, every call
\* runs loadExistingAgents.
initialize(st) == LoadExistingAgents(st)

\* AgentManager.listAll: reconcile every record of the map.
listAll(st) ==
    LET upd == [id \in DOMAIN st.agents |-> Reconcile(id, st.agents[id], st)]
        savedIds == {id \in DOMAIN st.agents : upd[id].saved}
    IN [agents |-> [a \in DOMAIN st.agents |-> upd[a].rec],
        disk |-> [a \in DOMAIN st.disk \cup savedIds |->
                        IF a \in savedIds THEN MetaOf(upd[a].rec) ELSE st.disk[a]],
        log |-> st.log,
        proc |-> st.proc,
        wrote |-> st.wrote \cup savedIds]

\* The ids listRunning / listCompleted return from a reconciled map.
RunningIds(ags) == {a \in DOMAIN ags : ags[a].status = AgentStatus.RUNNING}
CompletedIds(ags) == {a \in DOMAIN ags : ags[a].status # AgentStatus.RUNNING}

\* The admission test with the comparison off by one.
AtLimit_OffByOne(running) == running > maxConcurrent

\* The admission test of spawn: running.length >= this.maxConcurrent
AtLimit(running) == running >= maxConcurrent

\* AgentManager.get on a store that initialize has gone over.
getAgent(id, st) ==
    IF id \in DOMAIN st.agents
    THEN LET r == Reconcile(id, st.agents[id], st)
         IN [st EXCEPT !.agents[id] = r.rec,
                       !.disk = IF r.saved THEN Put(st.disk, id, MetaOf(r.rec)) ELSE @,
                       !.wrote = IF r.saved THEN @ \cup {id} ELSE @]
    ELSE IF id \in DOMAIN st.disk      \* loadFromDisk finds a meta.json
    THEN LET r == Reconcile(id, loadFromDisk(id, st), st)
         IN [st EXCEPT !.agents = Put(st.agents, id, r.rec),
                       !.disk = IF r.saved THEN Put(st.disk, id, MetaOf(r.rec)) ELSE @,
                       !.wrote = IF r.saved THEN @ \cup {id} ELSE @]
    ELSE st

\* The key cleanupOldAgents sorts by: completedAt?.getTime() || 0
SortKey(rec) == IF rec.completedAt = NULL THEN 0 ELSE rec.completedAt

\* Eviction with the sort descending: the latest completed go first.
Evictable_Newest(ags) ==
    LET completed == CompletedIds(ags)
        excess == Cardinality(completed) - maxAgents
    IN IF excess <= 0 THEN {{}}
       ELSE {E \in SUBSET completed :
                /\ Cardinality(E) = excess
                /\ \A e \in E, k \in completed \ E : SortKey(ags[e]) >= SortKey(ags[k])}

\* The sets cleanupOldAgents can evict from a reconciled map: the first
\* (count - maxAgents) of the completed records in ascending completedAt.
Evictable(ags) ==
    LET completed == CompletedIds(ags)
        excess == Cardinality(completed) - maxAgents
    IN IF excess <= 0 THEN {{}}
       ELSE {E \in SUBSET completed :
                /\ Cardinality(E) = excess
                /\ \A e \in E, k \in completed \ E : SortKey(ags[e]) <= SortKey(ags[k])}

\* ---------------------------------------------------------------- observations
Core(rec) == <<rec.status, rec.completedAt, rec.pid>>

\* Records whose status, completedAt or pid a step set or changed in memory.
ChangedCore(before, after) ==
    {a \in DOMAIN after : a \notin DOMAIN before \/ Core(before[a]) # Core(after[a])}

\* What the latest manager step was: the call, the id it was given or chose,
\* what it returned (or where it is suspended), the ids whose meta.json it
\* wrote, whether it is a listAll that directly follows a listAll, and for a
\* spawn whether the CLI it asks for is available and its cwd valid.
NoObs ==
    [op |-> "none", id |-> NULL, result |-> "none", wrote |-> {}, repeat |-> FALSE,
     inputOk |-> FALSE]

Obs(op, id, result, st1) ==
    [NoObs EXCEPT !.op = op, !.id = id, !.result = result, !.wrote = st1.wrote]

\* Callers are interchangeable: a new call is given to the least idle one.
Idle(c) == call[c].pc = "idle" /\ \A other \in Callers : call[other].pc = "idle" => c <= other

IdleCall ==
    [pc |-> "idle", id |-> NULL, detached |-> FALSE, startedAt |-> NULL, cwd |-> "here"]

\* A stop call waiting out its grace window holds the AgentProcess object it
\* took from the map; once the map holds another object (or none) under that
\* id, the call's object is no longer the manager's record.
DetachStops(cl, replaced) ==
    [c \in Callers |->
        IF cl[c].pc = "stop_grace" /\ cl[c].id \in replaced
        THEN [cl[c] EXCEPT !.detached = TRUE] ELSE cl[c]]

\* The ids whose map entry one run of loadExistingAgents replaces.
Reloaded(st) == LoadedIds(st)

Bump(n) == IF n >= 2 THEN 2 ELSE n + 1

\* ---------------------------------------------------------------- initial state
\* A manager has just been constructed over an empty store; the initialize()
\* its constructor started has not run yet.
InitStore ==
    /\ agents = EmptyMap
    /\ disk = EmptyMap
    /\ log = [a \in AgentIds |-> <<>>]
    /\ mtime = [a \in AgentIds |-> NULL]
    /\ proc = [a \in AgentIds |-> "none"]
    /\ clock = 0
    /\ call = [c \in Callers |-> IdleCall]
    /\ ctorInit = TRUE
    /\ scans = 0
    /\ last = NoObs

\* No record has conversation bookkeeping yet.
NoChain == [agents |-> EmptyMap, disk |-> EmptyMap]

\* The command line, the monitor and the byte reader are not running.
Off == [on |-> FALSE]
InitOutside == cli = Off /\ monitor = Off /\ reader = Off

Init == InitStore /\ arg = NULL /\ res = NULL /\ chain = NoChain /\ InitOutside

\* ---------------------------------------------------------------- environment
RECURSIVE SumLen(_, _)
SumLen(lg, ids) ==
    IF ids = {} THEN 0
    ELSE LET a == CHOOSE x \in ids : TRUE
         IN Len(lg[a]) + SumLen(lg, ids \ {a})

\* The logs have room for one more line.
LogRoom == SumLen(log, AgentIds) < MaxLog

\* The child writes one line to its log.
ChildAppend(id, kind, ownTs) ==
    /\ proc[id] = "alive"
    /\ id \in DOMAIN disk
    /\ LogRoom
    /\ kind \in {"raw", "error"} => ~ownTs
    /\ kind = "msg" => ownTs
    /\ log' = [log EXCEPT ![id] = Append(@, Line(kind, IF ownTs THEN clock ELSE NULL))]
    /\ mtime' = [mtime EXCEPT ![id] = clock]
    /\ last' = NoObs
    /\ UNCHANGED <<agents, disk, proc, clock, call, ctorInit, scans, arg, res, chain, cli, monitor, reader>>

\* The child exits; the launch wrapper may append the exit-code sentinel.
ChildExit(id, sentinel) ==
    /\ proc[id] = "alive"
    /\ proc' = [proc EXCEPT ![id] = "dead"]
    /\ IF sentinel \in SentinelKinds
       THEN /\ id \in DOMAIN disk
            /\ LogRoom
            /\ log' = [log EXCEPT ![id] = Append(@, Line(sentinel, NULL))]
            /\ mtime' = [mtime EXCEPT ![id] = clock]
       ELSE UNCHANGED <<log, mtime, cli, monitor, reader>>
    /\ last' = NoObs
    /\ UNCHANGED <<agents, disk, clock, call, ctorInit, scans, arg, res, chain, cli, monitor, reader>>

\* A process that was sent SIGKILL is gone.
ProcessGone(id) ==
    /\ proc[id] = "killed"
    /\ proc' = [proc EXCEPT ![id] = "dead"]
    /\ last' = NoObs
    /\ UNCHANGED <<agents, disk, log, mtime, clock, call, ctorInit, scans, arg, res, chain, cli, monitor, reader>>

Tick ==
    /\ clock < MaxClock
    /\ clock' = clock + 1
    /\ last' = NoObs
    /\ UNCHANGED <<agents, disk, log, mtime, proc, call, ctorInit, scans, arg, res, chain, cli, monitor, reader>>

\* The process hosting the manager is restarted: a new AgentManager is
\* constructed over the same store, the calls in flight are gone.
Restart ==
    /\ agents' = EmptyMap
    /\ call' = [c \in Callers |-> IdleCall]
    /\ ctorInit' = TRUE
    /\ scans' = 0
    /\ last' = NoObs
    /\ UNCHANGED <<disk, log, mtime, proc, clock, arg, res, chain, cli, monitor, reader>>

\* ---------------------------------------------------------------- manager steps
\* The store part of a step's outcome.
Commit(st1) ==
    /\ agents' = st1.agents
    /\ disk' = st1.disk
    /\ log' = st1.log

\* The initialize() started by the constructor runs.
CtorInitialize ==
    /\ ctorInit
    /\ LET st1 == initialize(Store)
       IN /\ Commit(st1)
          /\ call' = DetachStops(call, Reloaded(Store))
          /\ last' = Obs("initialize", NULL, "done", st1)
    /\ ctorInit' = FALSE
    /\ scans' = Bump(scans)
    /\ UNCHANGED <<mtime, proc, clock, arg, res, chain, cli, monitor, reader>>

\* AgentManager.listAll (listRunning, listCompleted, listByTask and
\* listByParentSession filter its result).
ListAll(c) ==
    /\ Idle(c)
    /\ LET st1 == listAll(Store)
       IN /\ Commit(st1)
          /\ last' = [Obs("listAll", NULL, "done", st1) EXCEPT
                        !.repeat = (last.op = "listAll")]
    /\ UNCHANGED <<mtime, proc, clock, call, ctorInit, scans, arg, res, chain, cli, monitor, reader>>

\* AgentManager.get
Get(c, id) ==
    /\ Idle(c)
    /\ LET st1 == getAgent(id, initialize(Store))
       IN /\ Commit(st1)
          /\ call' = DetachStops(call, Reloaded(Store))
          /\ last' = Obs("get", id, IF id \in DOMAIN st1.agents THEN "found" ELSE "null", st1)
    /\ scans' = Bump(scans)
    /\ UNCHANGED <<mtime, proc, clock, ctorInit, arg, res, chain, cli, monitor, reader>>

\* AgentManager.cleanupOldAgents, evicting the set E.
cleanupOldAgents(st, E) ==
    LET st1 == listAll(st)
    IN [st1 EXCEPT !.agents = Drop(st1.agents, E),
                   !.disk = Drop(st1.disk, E),
                   !.log = [a \in AgentIds |-> IF a \in E THEN <<>> ELSE st1.log[a]]]

\* AgentManager.spawn up to its admission: initialize, listRunning, the
\* concurrency check, checkCliAvailable and the cwd check.
SpawnAdmit(c, cliOK, cwdOK) ==
    /\ Idle(c)
    /\ LET st1 == listAll(initialize(Store))
           running == Cardinality(RunningIds(st1.agents))
           result == IF AtLimit(running) THEN "ConcurrencyLimitExceeded"
                     ELSE IF ~cliOK THEN "CliNotAvailable"
                     ELSE IF ~cwdOK THEN "InvalidWorkingDirectory"
                     ELSE "admitted"
       IN /\ Commit(st1)
          /\ call' = [DetachStops(call, Reloaded(Store)) EXCEPT ![c] =
                        IF result = "admitted"
                        THEN [IdleCall EXCEPT !.pc = "spawn_admitted"]
                        ELSE IdleCall]
          /\ last' = [Obs("spawn", NULL, result, st1) EXCEPT !.inputOk = cliOK /\ cwdOK]
    /\ scans' = Bump(scans)
    /\ UNCHANGED <<mtime, proc, clock, ctorInit, arg, res, chain, cli, monitor, reader>>

\* An id no record, directory, process or call in flight uses.
Unused(id) ==
    /\ id \notin DOMAIN agents
    /\ id \notin DOMAIN disk
    /\ ~Signalable(proc[id])
    /\ \A c \in Callers : call[c].id # id

\* randomUUID().substring(0, 8): unused ids are interchangeable, the model
\* hands out the least one.
Fresh(id) == Unused(id) /\ \A other \in AgentIds : Unused(other) => id <= other

\* AgentManager.spawn from the creation of the record to its return, the
\* generated id being id and the cwd of the call cwd.
\* outcome: "ok" the child is launched and has a pid, "nopid" the OS launch
\* fails and the child has no pid, "fail" creating the directory, opening the
\* log or saving the record throws.
Launch(c, id, outcome, cwd) ==
    /\ call[c].pc = "spawn_admitted"
    /\ IF outcome = "fail"
       THEN \* cleanupPartialAgent: agents.delete(agentId), fs.rm(agentDir)
            /\ agents' = Drop(agents, {id})
            /\ disk' = Drop(disk, {id})
            /\ log' = [log EXCEPT ![id] = <<>>]
            /\ last' = Obs("spawn", id, "SpawnFailure", Store)
            /\ call' = [call EXCEPT ![c] = IdleCall]
            /\ UNCHANGED <<mtime, proc, cli, monitor, reader>>
       ELSE LET agent == NewAgentProcess(IF outcome = "ok" THEN id ELSE NULL,
                                         AgentStatus.RUNNING, clock, NULL, cwd)
                st1 == [agents |-> Put(agents, id, agent),
                        disk |-> Put(disk, id, MetaOf(agent)),
                        log |-> [log EXCEPT ![id] = <<>>],
                        proc |-> [proc EXCEPT ![id] = IF outcome = "ok" THEN "alive" ELSE "none"],
                        wrote |-> {id}]
            IN \E E \in Evictable(listAll(st1).agents) :
                 LET st2 == cleanupOldAgents(st1, E)
                 IN /\ Commit(st2)
                    /\ proc' = st1.proc
                    /\ mtime' = [mtime EXCEPT ![id] = clock]
                    /\ call' = [DetachStops(call, E) EXCEPT ![c] = IdleCall]
                    /\ last' = Obs("spawn", id, "ok", st2)
    /\ UNCHANGED <<clock, ctorInit, scans, arg, res, chain, cli, monitor, reader>>

\* spawn generating an id that is in use nowhere.
SpawnLaunch(c, id, outcome, cwd) == Fresh(id) /\ Launch(c, id, outcome, cwd)

\* spawn generating any id: randomUUID().substring(0, 8) is not compared
\* with the ids of the map or of the store.
SpawnLaunchAnyId(c, id, outcome, cwd) == Launch(c, id, outcome, cwd)

\* The assignments that close stop: status, completedAt, then saveMeta.
MarkStopped(rec) ==
    [rec EXCEPT !.status = AgentStatus.STOPPED, !.completedAt = clock]

\* AgentManager.stop up to its grace window.  process.kill(-pid, 'SIGTERM')
\* throws when the process is gone; the call then skips the wait.
StopBegin(c, id) ==
    /\ Idle(c)
    /\ LET st1 == initialize(Store)
           signalled == /\ id \in DOMAIN st1.agents
                        /\ st1.agents[id].pid # NULL
                        /\ st1.agents[id].status = AgentStatus.RUNNING
       IN IF ~signalled
          THEN /\ Commit(st1)
               /\ call' = DetachStops(call, Reloaded(Store))
               /\ last' = Obs("stop", id, "false", st1)
          ELSE IF isProcessAlive(st1.agents[id], st1)
          THEN /\ Commit(st1)
               /\ call' = [DetachStops(call, Reloaded(Store)) EXCEPT ![c] =
                             [IdleCall EXCEPT !.pc = "stop_grace", !.id = id,
                                              !.startedAt = st1.agents[id].startedAt,
                                              !.cwd = st1.agents[id].cwd]]
               /\ last' = Obs("stop", id, "grace", st1)
          ELSE LET rec == MarkStopped(st1.agents[id])
                   st2 == [st1 EXCEPT !.agents[id] = rec,
                                      !.disk = Put(st1.disk, id, MetaOf(rec)),
                                      !.wrote = @ \cup {id}]
               IN /\ Commit(st2)
                  /\ call' = DetachStops(call, Reloaded(Store))
                  /\ last' = Obs("stop", id, "true", st2)
    /\ scans' = Bump(scans)
    /\ UNCHANGED <<mtime, proc, clock, ctorInit, arg, res, chain, cli, monitor, reader>>

\* AgentManager.stop after the grace window: SIGKILL when the process is
\* still alive (the signal takes effect later), then status, completedAt and
\* saveMeta on the object the call holds.
StopFinish(c) ==
    /\ call[c].pc = "stop_grace"
    /\ LET id == call[c].id
           held == IF call[c].detached
                   THEN NewAgentProcess(id, AgentStatus.RUNNING, call[c].startedAt, NULL,
                                        call[c].cwd)
                   ELSE agents[id]
           rec == MarkStopped(held)
           st1 == [Store EXCEPT !.agents = IF call[c].detached THEN @ ELSE Put(@, id, rec),
                                !.disk = Put(disk, id, MetaOf(rec)),
                                !.wrote = {id}]
       IN /\ proc' = [proc EXCEPT ![id] = IF Signalable(@) THEN "killed" ELSE @]
          /\ Commit(st1)
          /\ last' = Obs("stop", id, "true", st1)
    /\ call' = [call EXCEPT ![c] = IdleCall]
    /\ UNCHANGED <<mtime, clock, ctorInit, scans, arg, res, chain, cli, monitor, reader>>

\* ---------------------------------------------------------------- meta.json
\* The null of a string-valued property.
NoString == "null"

\* VALID_MODES
Modes == {"plan", "edit", "ralph"}

\* A function of the module applied on its own: not yet called, and called
\* with the value it returned.
Pending == [done |-> FALSE]
Done(v) == [done |-> TRUE, out |-> v]

\* new AgentProcess(agentId, taskName, agentType, prompt, cwd, mode, pid,
\* status, startedAt, completedAt, baseDir, parentSessionId, workspaceDir):
\* the properties the constructor assigns.  Arguments after the thirteenth
\* (a.sessionId, a.conversationTurn, a.originalAgentId, a.replyAgentIds) are
\* not parameters of the constructor and leave no property.
AgentProcess(a) ==
    [taskName |-> a.taskName, cwd |-> a.cwd, workspaceDir |-> a.workspaceDir,
     mode |-> a.mode, pid |-> a.pid, status |-> a.status,
     startedAt |-> a.startedAt, completedAt |-> a.completedAt,
     parentSessionId |-> a.parentSessionId]

\* AgentProcess.saveMeta: the whole object written to meta.json.
saveMeta(agent) ==
    [task_name |-> agent.taskName, cwd |-> agent.cwd,
     workspace_dir |-> agent.workspaceDir, mode |-> agent.mode, pid |-> agent.pid,
     status |-> agent.status, started_at |-> agent.startedAt,
     completed_at |-> agent.completedAt,
     parent_session_id |-> agent.parentSessionId]

\* meta.mode === 'edit' ? 'edit' : 'plan'
ModeFromMeta(mode) == IF mode = "edit" THEN "edit" ELSE "plan"

\* The record AgentProcess.loadFromDisk constructs from a parsed meta.json.
loadFromMeta(meta) ==
    AgentProcess(
        [taskName |-> IF meta.task_name = "" THEN "default" ELSE meta.task_name,
         cwd |-> meta.cwd,
         mode |-> ModeFromMeta(meta.mode),
         pid |-> meta.pid,
         status |-> StatusFromMeta(meta.status),
         startedAt |-> meta.started_at,
         completedAt |-> meta.completed_at,
         parentSessionId |-> meta.parent_session_id,
         workspaceDir |-> meta.workspace_dir])

\* The constructor calls the round trip is tried on.
MetaArgs ==
    [taskName : {"chain-task"}, cwd : {NoString, "/w"}, mode : Modes, pid : {7},
     status : {AgentStatus.RUNNING, AgentStatus.COMPLETED},
     startedAt : {0}, completedAt : {NULL},
     parentSessionId : {NoString, "parent-1"},
     workspaceDir : {NoString, "/ws"},
     sessionId : {NoString, "session-xyz"},
     conversationTurn : {0, 1},
     originalAgentId : {NoString, "chain-original"},
     replyAgentIds : {<<>>, <<"reply-1">>}]

\* agent = new AgentProcess(...arg); agent.saveMeta(); loadFromDisk(agentId)
SaveAndLoad ==
    /\ arg \in MetaArgs
    /\ ~res.done
    /\ res' = Done(loadFromMeta(saveMeta(AgentProcess(arg))))
    /\ UNCHANGED <<agents, disk, log, mtime, proc, clock, call, ctorInit, scans, last, arg, chain, cli, monitor, reader>>

\* ---------------------------------------------------------------- reply
\* AgentManager.reply is declared (agents.d.ts) and called (handleReply);
\* its body is the specification's: "only valid for agent kinds whose
\* native CLI supports session resumption; fails with ReplyNotSupported
\* otherwise; requires the original record to carry a session_id (fails
\* with MissingSessionId if absent); produces a new record chained via
\* original_agent_id / reply_agent_ids / incremented conversation_turn,
\* inheriting task name, mode, and working directory from the original."

\* The agent kinds of the reply scope, and REPLY_SUPPORTED_AGENTS among them
\* ("Supported agents: claude, gemini, copilot").
ChainKinds == {"codex", "claude", "gemini"}
REPLY_SUPPORTED_AGENTS == {"claude", "gemini", "copilot"}

\* A record of turn 0 with its conversation bookkeeping.
ChainRecord(agentType, taskName, mode, cwd) ==
    [agentType |-> agentType, taskName |-> taskName, mode |-> mode, cwd |-> cwd,
     workspaceDir |-> NoString, pid |-> NULL, status |-> AgentStatus.RUNNING,
     startedAt |-> 0, completedAt |-> NULL, parentSessionId |-> NoString,
     sessionId |-> NoString, conversationTurn |-> 0, originalAgentId |-> NULL,
     replyAgentIds |-> <<>>]

\* An id no record of the reply scope uses, the least one.
ChainFresh(id) ==
    /\ id \notin DOMAIN chain.agents \cup DOMAIN chain.disk
    /\ \A other \in AgentIds :
          other \notin DOMAIN chain.agents \cup DOMAIN chain.disk => id <= other

\* spawn, as far as the bookkeeping goes: a record of turn 0.
ChainSpawn(id, agentType, taskName, mode) ==
    /\ ChainFresh(id)
    /\ LET rec == ChainRecord(agentType, taskName, mode, "here")
       IN chain' = [agents |-> Put(chain.agents, id, rec),
                    disk |-> Put(chain.disk, id, saveMeta(rec))]
    /\ res' = Done([op |-> "spawn", original |-> NULL, id |-> id, result |-> "ok"])
    /\ UNCHANGED <<agents, disk, log, mtime, proc, clock, call, ctorInit, scans, last, arg, cli, monitor, reader>>

\* The session_id "extracted from the agent's own output": set once.
ExtractSession(id, sessionId) ==
    /\ id \in DOMAIN chain.agents
    /\ chain.agents[id].sessionId = NoString
    /\ LET rec == [chain.agents[id] EXCEPT !.sessionId = sessionId]
       IN chain' = [agents |-> Put(chain.agents, id, rec),
                    disk |-> Put(chain.disk, id, saveMeta(rec))]
    /\ res' = Done([op |-> "read", original |-> NULL, id |-> id, result |-> "ok"])
    /\ UNCHANGED <<agents, disk, log, mtime, proc, clock, call, ctorInit, scans, last, arg, cli, monitor, reader>>

\* reply checking the agent kind only.
ReplyCheck_KindOnly(original) ==
    IF original.agentType \notin REPLY_SUPPORTED_AGENTS THEN "ReplyNotSupported"
    ELSE "ok"

\* What reply(original, message) raises, "ok" when it raises nothing.
ReplyCheck(original) ==
    IF original.agentType \notin REPLY_SUPPORTED_AGENTS THEN "ReplyNotSupported"
    ELSE IF original.sessionId = NoString THEN "MissingSessionId"
    ELSE "ok"

\* The record reply creates for the original o, a record of the map.
ReplyRecord(o) ==
    LET original == chain.agents[o]
    IN [ChainRecord(original.agentType, original.taskName, original.mode, original.cwd)
          EXCEPT !.sessionId = original.sessionId,
                 !.conversationTurn = original.conversationTurn + 1,
                 !.originalAgentId = o]

\* AgentManager.reply(original, message), the new record getting the id id;
\* both records are written with AgentProcess.saveMeta.
Reply(o, id) ==
    /\ o \in DOMAIN chain.agents
    /\ LET result == ReplyCheck(chain.agents[o])
       IN IF result # "ok"
          THEN /\ res' = Done([op |-> "reply", original |-> o, id |-> NULL,
                               result |-> result])
               /\ UNCHANGED chain
          ELSE /\ ChainFresh(id)
               /\ LET orig == [chain.agents[o] EXCEPT !.replyAgentIds = Append(@, id)]
                      both == [x \in {o, id} |-> IF x = o THEN orig ELSE ReplyRecord(o)]
                  IN chain' = [agents |-> [x \in DOMAIN chain.agents \cup {id} |->
                                              IF x \in {o, id} THEN both[x]
                                              ELSE chain.agents[x]],
                               disk |-> [x \in DOMAIN chain.disk \cup {o, id} |->
                                              IF x \in {o, id} THEN saveMeta(both[x])
                                              ELSE chain.disk[x]]]
               /\ res' = Done([op |-> "reply", original |-> o, id |-> id,
                               result |-> "ok"])
    /\ UNCHANGED <<agents, disk, log, mtime, proc, clock, call, ctorInit, scans, last, arg, cli, monitor, reader>>

\* ---------------------------------------------------------------- unparsable lines
\* The agent kinds the code has a command for (the keys of AGENT_COMMANDS).
AgentTypes == {"codex", "cursor", "gemini", "claude", "opencode", "copilot"}

\* process.platform
Platforms == {"win32", "linux"}

\* The text of a line that JSON.parse rejects is a sequence of fragments:
\* white space, the four fragments the noise patterns look for, or other text.
MaxLineLen == 2
Blank == " "
Fragments ==
    {Blank, "AttachConsole failed", "conpty_console_list_agent", "@lydell", "node-pty", "oops"}
TextLines == UNION {[1..n -> Fragments] : n \in 1..MaxLineLen}

\* String.prototype.trim
RECURSIVE trim(_)
trim(text) ==
    IF text = <<>> THEN text
    ELSE IF Head(text) = Blank THEN trim(Tail(text))
    ELSE IF text[Len(text)] = Blank THEN trim(SubSeq(text, 1, Len(text) - 1))
    ELSE text

\* line.includes(fragment)
includes(line, fragment) == \E i \in 1..Len(line) : line[i] = fragment

\* The noise test applied to every platform.
isGeminiWin32Noise_AnyPlatform(agentType, platform, line) ==
    /\ agentType = "gemini"
    /\ \/ includes(line, "AttachConsole failed")
       \/ includes(line, "conpty_console_list_agent")
       \/ includes(line, "@lydell") /\ includes(line, "node-pty")

\* isGeminiWin32Noise of the catch branch of readNewEvents
isGeminiWin32Noise(agentType, platform, line) ==
    /\ agentType = "gemini"
    /\ platform = "win32"
    /\ \/ includes(line, "AttachConsole failed")
       \/ includes(line, "conpty_console_list_agent")
       \/ includes(line, "@lydell") /\ includes(line, "node-pty")

\* The catch branch of readNewEvents: the events pushed for one line that
\* JSON.parse rejects.
catchLine(agentType, platform, line, fallbackTimestamp) ==
    IF isGeminiWin32Noise(agentType, platform, line) THEN <<>>
    ELSE IF agentType = "copilot"
    THEN <<[type |-> "message", agent |-> "copilot", content |-> line,
            complete |-> TRUE, timestamp |-> fallbackTimestamp]>>
    ELSE <<[type |-> "raw", content |-> line, timestamp |-> fallbackTimestamp]>>

\* readNewEvents over one unparsable line of the log:
\* split('\n').map(l => l.trim()).filter(l => l), then the catch branch.
readUnparsable(agentType, platform, text, fallbackTimestamp) ==
    LET line == trim(text)
    IN IF line = <<>> THEN <<>>
       ELSE catchLine(agentType, platform, line, fallbackTimestamp)

CatchArgs ==
    [agentType : AgentTypes, platform : Platforms, text : TextLines,
     fallbackTimestamp : 0..MaxClock]

\* One read of a log holding the one line arg.text.
ReadUnparsable ==
    /\ arg \in CatchArgs
    /\ ~res.done
    /\ res' = Done(readUnparsable(arg.agentType, arg.platform, arg.text,
                                   arg.fallbackTimestamp))
    /\ UNCHANGED <<agents, disk, log, mtime, proc, clock, call, ctorInit, scans,
                   last, arg, chain, cli, monitor, reader>>

\* ---------------------------------------------------------------- buildCommand
\* A string is the sequence of its pieces: a command template is made of
\* words, the blank, the single quote and the marker {prompt}; an argument of
\* a command is the sequence of the pieces it is made of. Double quotes and
\* their escapes are left out.
MaxTemplateLen == 4
Quote == "'"
Marker == "{prompt}"
TemplatePieces == {Blank, Quote, Marker, "codex", "my-cli"}
Templates == UNION {[1..n -> TemplatePieces] : n \in 0..MaxTemplateLen}

\* An argument made of one piece, and an argv of such arguments.
Tok(piece) == <<piece>>
Toks(pieces) == [i \in DOMAIN pieces |-> Tok(pieces[i])]

\* A call that throws an Error with that message, a call that gives cmd back.
Threw(message) == [threw |-> TRUE, message |-> message]
Gave(cmd) == [threw |-> FALSE, cmd |-> cmd]

\* Array.prototype.indexOf, counting from 0, -1 when absent.
indexOf(cmd, part) ==
    IF \E i \in 1..Len(cmd) : cmd[i] = part
    THEN (CHOOSE i \in 1..Len(cmd) : cmd[i] = part /\ \A j \in 1..(i - 1) : cmd[j] # part) - 1
    ELSE 0 - 1

\* cmd.splice(index, 0, ...items), index counted from 0
spliceIn(cmd, index, items) ==
    SubSeq(cmd, 1, index) \o items \o SubSeq(cmd, index + 1, Len(cmd))

\* The loop of splitCommandTemplate over the characters left.
RECURSIVE SplitLoop(_, _, _, _)
SplitLoop(rest, result, current, inSingleQuote) ==
    IF rest = <<>>
    THEN [result |-> IF current # <<>> THEN Append(result, current) ELSE result,
          inSingleQuote |-> inSingleQuote]
    ELSE LET ch == Head(rest)
         IN IF inSingleQuote
            THEN IF ch = Quote THEN SplitLoop(Tail(rest), result, current, FALSE)
                 ELSE SplitLoop(Tail(rest), result, Append(current, ch), TRUE)
            ELSE IF ch = Quote THEN SplitLoop(Tail(rest), result, current, TRUE)
            ELSE IF ch = Blank
            THEN IF current # <<>> THEN SplitLoop(Tail(rest), Append(result, current), <<>>, FALSE)
                 ELSE SplitLoop(Tail(rest), result, current, FALSE)
            ELSE SplitLoop(Tail(rest), result, Append(current, ch), FALSE)

\* splitCommandTemplate(cmdStr)
splitCommandTemplate(cmdStr) ==
    LET end == SplitLoop(cmdStr, <<>>, <<>>, FALSE)
    IN IF end.inSingleQuote
       THEN Threw(<<"Unterminated quote in command template: ">> \o cmdStr)
       ELSE Gave(end.result)

\* The names isCompatibleAgentCli accepts for an agent kind, as
\* path.basename(firstArg).toLowerCase() gives them.
ExecutableNames ==
    [codex |-> {"codex", "codex.exe"}, claude |-> {"claude", "claude.exe"},
     gemini |-> {"gemini", "gemini.exe"}, cursor |-> {"cursor-agent", "cursor-agent.exe"},
     opencode |-> {"opencode", "opencode.exe"}, copilot |-> {"copilot", "copilot.exe"}]

\* isCompatibleAgentCli accepting the executable of any agent kind.
isCompatibleAgentCli_AnyKind(agentType, firstArg) ==
    /\ Len(firstArg) = 1
    /\ \E kind \in DOMAIN ExecutableNames : firstArg[1] \in ExecutableNames[kind]

\* isCompatibleAgentCli(agentType, firstArg): the pieces of the model hold
\* no directory and no capital, an argument of several pieces is no name.
isCompatibleAgentCli(agentType, firstArg) ==
    /\ Len(firstArg) = 1
    /\ agentType \in DOMAIN ExecutableNames
    /\ firstArg[1] \in ExecutableNames[agentType]

\* ensureClaudeFlag(cmd, flag, value): values == <<>> for an undefined value
ensureClaudeFlag(cmd, flag, values) ==
    IF indexOf(cmd, flag) # 0 - 1 THEN cmd ELSE cmd \o <<flag>> \o values

\* ensureGeminiHeadlessFlag(cmd, promptText)
ensureGeminiHeadlessFlag(cmd, promptText) ==
    IF indexOf(cmd, Tok("-p")) # 0 - 1 \/ indexOf(cmd, Tok("--prompt")) # 0 - 1 THEN cmd
    ELSE IF indexOf(cmd, promptText) # 0 - 1
    THEN spliceIn(cmd, indexOf(cmd, promptText), <<Tok("-p")>>)
    ELSE Append(cmd, Tok("-p"))

\* AGENT_COMMANDS
AGENT_COMMANDS ==
    [codex |-> Toks(<<"codex", "exec", "--dangerously-bypass-approvals-and-sandbox", Marker, "--json">>),
     cursor |-> Toks(<<"cursor-agent", "-p", "--output-format", "stream-json", Marker>>),
     gemini |-> Toks(<<"gemini", "-p", Marker, "--output-format", "stream-json">>),
     claude |-> Toks(<<"claude", "-p", "--verbose", Marker, "--output-format", "stream-json",
                       "--permission-mode", "plan">>),
     opencode |-> Toks(<<"opencode", "run", "--format", "json", Marker>>),
     copilot |-> Toks(<<"copilot", "-p", Marker, "-s">>)]

\* AgentManager.applyEditMode
applyEditMode(agentType, cmd) ==
    IF agentType = "codex" THEN Append(cmd, Tok("--full-auto"))
    ELSE IF agentType = "cursor" THEN Append(cmd, Tok("-f"))
    ELSE IF agentType = "gemini" THEN Append(cmd, Tok("--yolo"))
    ELSE IF agentType = "claude"
    THEN LET permModeIndex == indexOf(cmd, Tok("--permission-mode"))
         IN IF permModeIndex # 0 - 1 /\ permModeIndex + 1 < Len(cmd)
            THEN [cmd EXCEPT ![permModeIndex + 2] = Tok("acceptEdits")]
            ELSE cmd
    ELSE IF agentType = "copilot"
    THEN cmd \o Toks(<<"--allow-all-tools", "--allow-all-paths", "--no-ask-user">>)
    ELSE cmd

\* AgentManager.applyRalphMode
applyRalphMode(agentType, cmd) ==
    IF agentType = "codex" THEN Append(cmd, Tok("--full-auto"))
    ELSE IF agentType = "cursor" THEN Append(cmd, Tok("-f"))
    ELSE IF agentType = "gemini" THEN Append(cmd, Tok("--yolo"))
    ELSE IF agentType = "claude"
    THEN LET permModeIndex == indexOf(cmd, Tok("--permission-mode"))
             removed == IF permModeIndex # 0 - 1
                        THEN SubSeq(cmd, 1, permModeIndex) \o SubSeq(cmd, permModeIndex + 3, Len(cmd))
                        ELSE cmd
         IN Append(removed, Tok("--dangerously-skip-permissions"))
    ELSE IF agentType = "copilot" THEN Append(cmd, Tok("--yolo"))
    ELSE cmd

\* part.replaceAll('{prompt}', fullPrompt)
RECURSIVE replaceAll(_, _)
replaceAll(part, fullPrompt) ==
    IF part = <<>> THEN <<>>
    ELSE (IF Head(part) = Marker THEN fullPrompt ELSE <<Head(part)>>)
         \o replaceAll(Tail(part), fullPrompt)

\* The placeholder test passing every template that has an argument.
hasPromptPlaceholder_AnyArgument(baseTemplate) == baseTemplate # <<>>

\* baseTemplate.some(part => part.includes('{prompt}'))
hasPromptPlaceholder(baseTemplate) ==
    \E i \in 1..Len(baseTemplate) : includes(baseTemplate[i], Marker)

\* buildCommand from the model flag on, for a command of the agent's own CLI.
injectFlags(agentType, mode, model, cwd, fullPrompt, cmd0) ==
    LET claudeCmd ==
            IF agentType = "claude"
            THEN LET c1 == ensureClaudeFlag(cmd0, Tok("--verbose"), <<>>)
                     c2 == ensureClaudeFlag(c1, Tok("--permission-mode"), <<Tok("plan")>>)
                     c3 == IF indexOf(c2, Tok("--settings")) = 0 - 1
                           THEN c2 \o Toks(<<"--settings", "~/.claude/settings.json">>) ELSE c2
                 IN IF cwd # NoString /\ indexOf(c3, Tok("--add-dir")) = 0 - 1
                    THEN c3 \o Toks(<<"--add-dir", cwd>>) ELSE c3
            ELSE cmd0
        headless ==
            IF agentType = "gemini" THEN ensureGeminiHeadlessFlag(claudeCmd, fullPrompt)
            ELSE claudeCmd
        approval ==
            IF /\ agentType = "gemini" /\ mode = "plan"
               /\ indexOf(headless, Tok("--approval-mode")) = 0 - 1
               /\ indexOf(headless, Tok("--yolo")) = 0 - 1
            THEN headless \o Toks(<<"--approval-mode", "plan">>)
            ELSE headless
        modelFlag == Toks(<<"--model", model>>)
        withModel ==
            IF indexOf(approval, Tok("--model")) # 0 - 1 THEN approval
            ELSE IF agentType = "codex"
            THEN LET execIndex == indexOf(approval, Tok("exec"))
                     sandboxIndex == indexOf(approval, Tok("--sandbox"))
                 IN spliceIn(approval,
                             IF sandboxIndex # 0 - 1 THEN sandboxIndex ELSE execIndex + 1,
                             modelFlag)
            ELSE IF agentType \in {"cursor", "gemini", "claude", "copilot"}
            THEN approval \o modelFlag
            ELSE IF agentType = "opencode"
            THEN LET opencodeAgent == IF mode \in {"edit", "ralph"} THEN "build" ELSE "plan"
                     promptIndex == indexOf(approval, fullPrompt)
                 IN (IF promptIndex # 0 - 1
                     THEN spliceIn(approval, promptIndex + 1, Toks(<<"--agent", opencodeAgent>>))
                     ELSE approval) \o modelFlag
            ELSE approval
    IN IF mode = "ralph" THEN applyRalphMode(agentType, withModel)
       ELSE IF mode = "edit" THEN applyEditMode(agentType, withModel)
       ELSE withModel

\* fullPrompt of buildCommand: the prompt with its suffix, and for claude
\* outside edit mode with the plan-mode prefix.
FullPrompt(agentType, prompt, mode) ==
    LET isEditMode == mode = "edit"
    IN (IF agentType = "claude" /\ ~isEditMode THEN <<"CLAUDE_PLAN_MODE_PREFIX">> ELSE <<>>)
       \o <<prompt, "PROMPT_SUFFIX">>

\* AgentManager.buildCommand(agentType, prompt, mode, model, cwd), command
\* being this.agentConfigs[agentType].command (<<>> when there is none).
buildCommand(agentType, prompt, mode, model, cwd, command) ==
    LET fullPrompt == FullPrompt(agentType, prompt, mode)
        configAgentCommand == trim(command)
        split == IF configAgentCommand # <<>> THEN splitCommandTemplate(configAgentCommand)
                 ELSE Gave(AGENT_COMMANDS[agentType])
    IN IF split.threw THEN split
       ELSE IF ~hasPromptPlaceholder(split.cmd)
       THEN Threw(<<"Agent config for '", agentType, "' is missing the required ", Marker,
                   " placeholder in its command. Config path: ~/.agents/swarm/config.json.">>)
       ELSE LET cmd == [i \in DOMAIN split.cmd |-> replaceAll(split.cmd[i], fullPrompt)]
            IN IF ~isCompatibleAgentCli(agentType, cmd[1]) THEN Gave(cmd)
               ELSE Gave(injectFlags(agentType, mode, model, cwd, fullPrompt, cmd))

CommandArgs ==
    [agentType : AgentTypes, prompt : {"write tests"}, mode : Modes, model : {"gpt-5"},
     cwd : {NoString, "/w"}, command : Templates]

\* One call of buildCommand.
BuildCommand ==
    /\ arg \in CommandArgs
    /\ ~res.done
    /\ res' = Done(buildCommand(arg.agentType, arg.prompt, arg.mode, arg.model,
                                arg.cwd, arg.command))
    /\ UNCHANGED <<agents, disk, log, mtime, proc, clock, call, ctorInit, scans,
                   last, arg, chain, cli, monitor, reader>>

\* ---------------------------------------------------------------- status command line
\* The command line reads the agents directory by itself: cli.dir maps an
\* entry to the contents of its meta.json, cli.alive holds the pids
\* process.kill(pid, 0) succeeds for, cli.now is Date.now(). A sleep takes
\* the poll interval, a directory read no time.
WAIT_POLL_INTERVAL_MS == 1000
WAIT_MAX_TIMEOUT_MS == 600000

CliEntries == {"a1", "a2"}
CliTasks == {"t1", "t2"}
CliPids == {1, 2}
Statuses == {"running", "completed", "failed", "stopped"}

\* A meta.json that does not parse, and one that does.
Malformed == [ok |-> FALSE]
Meta(task_name, status, pid) ==
    [ok |-> TRUE, task_name |-> task_name, status |-> status, pid |-> pid]

\* isProcessAlive(pid) of the command line
cliIsProcessAlive(pid, alive) == pid # NULL /\ pid > 0 /\ pid \in alive

\* The liveness check taking every recorded pid for alive.
effectiveStatus_Recorded(meta, alive) == meta.status

\* effectiveStatus of getTaskAgents
effectiveStatus(meta, alive) ==
    IF meta.status = "running" /\ meta.pid # NULL /\ ~cliIsProcessAlive(meta.pid, alive)
    THEN "completed"
    ELSE meta.status

\* getTaskAgents(taskName, agentsDir): entry -> reported status, for the
\* entries whose meta.json parses and names the task.
getTaskAgents(taskName, dir, alive) ==
    LET listed == {e \in DOMAIN dir : dir[e].ok /\ dir[e].task_name = taskName}
    IN [e \in listed |-> effectiveStatus(dir[e], alive)]

\* sumStatusCounts(agents).running
runningCount(reported) == Cardinality({e \in DOMAIN reported : reported[e] = "running"})

\* The timeout taken as asked.
effectiveTimeout_Uncapped(timeout) == timeout

\* effectiveTimeout of runWaitCommand
effectiveTimeout(timeout) ==
    IF timeout < WAIT_MAX_TIMEOUT_MS THEN timeout ELSE WAIT_MAX_TIMEOUT_MS

\* The directories and calls runWaitCommand is run on.
CliDirs ==
    {[e \in CliEntries |-> IF e = "a1" THEN m1 ELSE m2] :
        m1 \in {Meta("t1", st, pid) : st \in {"running", "failed"}, pid \in {NULL, 1}},
        m2 \in {Malformed, Meta("t1", "stopped", 2)} \cup
               {Meta(t, "running", 2) : t \in CliTasks}}
CliTimeouts == {50, 700000}

\* runWaitCommand(taskName, timeout, agentsDir) is called.
InitCli ==
    \E dir \in CliDirs, alive \in SUBSET CliPids, timeout \in CliTimeouts :
        cli = [on |-> TRUE, dir |-> dir, alive |-> alive, now |-> 0, task |-> "t1",
               timeout |-> timeout, pc |-> "called", deadline |-> 0,
               agents |-> EmptyMap, timed_out |-> FALSE]

CliFrame ==
    UNCHANGED <<agents, disk, log, mtime, proc, clock, call, ctorInit, scans, last,
                arg, res, chain, monitor, reader>>

\* runWaitCommand up to its loop: the deadline and the first query.
WaitCalled ==
    /\ cli.on /\ cli.pc = "called"
    /\ cli' = [cli EXCEPT !.deadline = cli.now + effectiveTimeout(cli.timeout),
                          !.agents = getTaskAgents(cli.task, cli.dir, cli.alive),
                          !.pc = "test"]
    /\ CliFrame

\* The loop condition holds: the sleep of one poll interval.
WaitSleep ==
    /\ cli.on /\ cli.pc = "test"
    /\ runningCount(cli.agents) > 0 /\ cli.now < cli.deadline
    /\ cli' = [cli EXCEPT !.now = @ + WAIT_POLL_INTERVAL_MS, !.pc = "woke"]
    /\ CliFrame

\* The query after the sleep.
WaitPoll ==
    /\ cli.on /\ cli.pc = "woke"
    /\ cli' = [cli EXCEPT !.agents = getTaskAgents(cli.task, cli.dir, cli.alive),
                          !.pc = "test"]
    /\ CliFrame

\* The loop condition fails: runWaitCommand returns.
WaitReturn ==
    /\ cli.on /\ cli.pc = "test"
    /\ ~(runningCount(cli.agents) > 0 /\ cli.now < cli.deadline)
    /\ cli' = [cli EXCEPT !.timed_out = runningCount(cli.agents) > 0, !.pc = "returned"]
    /\ CliFrame

\* A process of the directory exits while the command waits.
CliProcessExit(pid) ==
    /\ cli.on /\ cli.pc = "woke"
    /\ pid \in cli.alive
    /\ cli' = [cli EXCEPT !.alive = @ \ {pid}]
    /\ CliFrame

\* The manager records the end of an agent while the command waits.
CliMetaSettled(e, status) ==
    /\ cli.on /\ cli.pc = "woke"
    /\ cli.dir[e].ok /\ cli.dir[e].status = "running"
    /\ status \in Statuses \ {"running"}
    /\ cli' = [cli EXCEPT !.dir[e].status = status]
    /\ CliFrame

\* ---------------------------------------------------------------- completion monitor
\* startAgentMonitor reads the agents directory by itself. monitor.dir maps
\* an entry to what its meta.json holds: "absent" (no such directory),
\* "missing" (no meta.json), "garbage" (text JSON.parse rejects), "null" (the
\* JSON text null), or the status of a well-formed record, whose agent_id is
\* the entry. A callback of the interval is cut at its awaits: the read of a
\* file takes its contents at one moment and hands them to the callback at a
\* later one, and callbacks of the interval may overlap.
NumOverlap == 2
MaxNotes == 2
MonitorEntries == <<"a1", "a2">>
MonitorIds == {"a1", "a2"}
MonitorSlots == 1..NumOverlap
RecordStatuses == {"running", "completed", "failed"}
FirstFiles == {"absent", "missing", "garbage", "null", "running", "completed"}
SecondFiles == {"absent", "running", "completed"}

IdleSlot == [pc |-> "idle", todo |-> <<>>, content |-> "absent", threw |-> FALSE]

\* fs.readdir(agentsDir), in directory order
readdir(dir) == SelectSeq(MonitorEntries, LAMBDA e : dir[e] # "absent")

\* The statuses the monitor takes from the directory when it starts.
knownAtStart(dir) ==
    [e \in {x \in MonitorIds : dir[x] \in RecordStatuses} |-> dir[e]]

\* The callback moves on to the next entry of its readdir, or ends.
NextEntry(slot) ==
    IF Len(slot.todo) <= 1 THEN [IdleSlot EXCEPT !.threw = slot.threw]
    ELSE [slot EXCEPT !.todo = Tail(@), !.pc = "read"]

\* The callback after await sendLoggingMessage: an exception is caught and
\* ignored.
afterSend(slot, ok) == NextEntry([slot EXCEPT !.threw = @ \/ ~ok])

\* prevStatus === "running" && status !== "running"
isTransition(prevStatus, status) == prevStatus = "running" /\ status # "running"

InitMonitor ==
    \E f1 \in FirstFiles, f2 \in SecondFiles :
        monitor = [on |-> TRUE, started |-> FALSE,
                   dir |-> [e \in MonitorIds |-> IF e = "a1" THEN f1 ELSE f2],
                   known |-> EmptyMap, initial |-> EmptyMap,
                   slot |-> [p \in MonitorSlots |-> IdleSlot],
                   sent |-> [e \in MonitorIds |-> 0],
                   note |-> "none"]

MonitorFrame ==
    UNCHANGED <<agents, disk, log, mtime, proc, clock, call, ctorInit, scans, last,
                arg, res, chain, cli, reader>>

\* startAgentMonitor up to setInterval: the known statuses are taken.
MonitorStart ==
    /\ monitor.on /\ ~monitor.started
    /\ monitor' = [monitor EXCEPT !.started = TRUE,
                                  !.known = knownAtStart(monitor.dir),
                                  !.initial = knownAtStart(monitor.dir),
                                  !.note = "none"]
    /\ MonitorFrame

\* The interval fires: a callback starts with the readdir.
PollFire(p) ==
    /\ monitor.on /\ monitor.started
    /\ monitor.slot[p].pc = "idle"
    /\ \A q \in MonitorSlots : q < p => monitor.slot[q].pc # "idle"
    /\ LET entries == readdir(monitor.dir)
       IN monitor' = [monitor EXCEPT
             !.slot[p] = IF entries = <<>> THEN IdleSlot
                         ELSE [IdleSlot EXCEPT !.pc = "read", !.todo = entries],
             !.note = "none"]
    /\ MonitorFrame

\* fs.readFile of the entry at hand takes the contents of its meta.json.
PollRead(p) ==
    /\ monitor.on /\ monitor.slot[p].pc = "read"
    /\ LET slot == monitor.slot[p]
           content == monitor.dir[Head(slot.todo)]
       IN monitor' = [monitor EXCEPT
             !.slot[p] = IF content \in {"absent", "missing", "garbage"}
                         THEN NextEntry(slot)          \* readFile or JSON.parse throws
                         ELSE [slot EXCEPT !.pc = "have", !.content = content],
             !.note = "none"]
    /\ MonitorFrame

\* The callback resumes with the parsed record: the status is remembered and
\* a transition is notified. Reading agent_id of null throws into the outer
\* catch, which ends the callback.
PollProcess(p) ==
    /\ monitor.on /\ monitor.slot[p].pc = "have"
    /\ LET slot == monitor.slot[p]
           agentId == Head(slot.todo)
           status == slot.content
           prevStatus == IF agentId \in DOMAIN monitor.known THEN monitor.known[agentId]
                         ELSE "undefined"
       IN IF status = "null"
          THEN monitor' = [monitor EXCEPT !.slot[p] = [IdleSlot EXCEPT !.threw = slot.threw],
                                          !.note = "none"]
          ELSE IF isTransition(prevStatus, status)
          THEN monitor' = [monitor EXCEPT
                  !.known = Put(@, agentId, status),
                  !.slot[p] = [slot EXCEPT !.pc = "send"],
                  !.sent[agentId] = IF @ < MaxNotes THEN @ + 1 ELSE @,
                  !.note = agentId]
          ELSE monitor' = [monitor EXCEPT
                  !.known = Put(@, agentId, status),
                  !.slot[p] = NextEntry(slot),
                  !.note = "none"]
    /\ MonitorFrame

\* sendLoggingMessage resolves, or throws.
PollSent(p, ok) ==
    /\ monitor.on /\ monitor.slot[p].pc = "send"
    /\ monitor' = [monitor EXCEPT !.slot[p] = afterSend(monitor.slot[p], ok),
                                  !.note = "none"]
    /\ MonitorFrame

\* The manager spawns the agent of an entry: its record says running.
AgentSpawned(e) ==
    /\ monitor.on /\ monitor.dir[e] = "absent"
    /\ monitor' = [monitor EXCEPT !.dir[e] = "running", !.note = "none"]
    /\ MonitorFrame

\* The manager records the end of an agent.
AgentSettled(e, status) ==
    /\ monitor.on /\ monitor.dir[e] = "running"
    /\ status \in RecordStatuses \ {"running"}
    /\ monitor' = [monitor EXCEPT !.dir[e] = status, !.note = "none"]
    /\ MonitorFrame

\* ---------------------------------------------------------------- log bytes
\* readNewEvents over the bytes of stdout.log. The child writes records, each
\* the two bytes "{" "}" followed by a newline, a byte at a time; the reader
\* has a buffer of BufferSize bytes (1 MiB in the code). An event is the
\* type and the text of its line.
BufferSize == 2
MaxBytes == 9
Newline == "\n"
RecordLine == <<"{", "}">>
ChildOutput == [i \in 1..MaxBytes |-> (RecordLine \o <<Newline>>)[((i - 1) % 3) + 1]]

\* newContent.split('\n').map(trim).filter(l => l)
RECURSIVE splitLines(_, _)
splitLines(bytes, current) ==
    IF bytes = <<>> THEN (IF current # <<>> THEN <<current>> ELSE <<>>)
    ELSE IF Head(bytes) = Newline
    THEN (IF current # <<>> THEN <<current>> ELSE <<>>) \o splitLines(Tail(bytes), <<>>)
    ELSE splitLines(Tail(bytes), Append(current, Head(bytes)))

\* The event of one line: JSON.parse accepts a whole record and rejects a
\* part of one, which becomes a raw event.
lineEvent(line) ==
    IF line = RecordLine THEN [type |-> "message", content |-> line]
    ELSE [type |-> "raw", content |-> line]

parseContent(bytes) ==
    LET lines == splitLines(bytes, <<>>)
    IN [i \in DOMAIN lines |-> lineEvent(lines[i])]

\* fd.read(buffer, 0, buffer.length, this.lastReadPos): the bytes read
bytesAt(file, lastReadPos) ==
    SubSeq(file, lastReadPos + 1,
           IF Len(file) < lastReadPos + BufferSize THEN Len(file) ELSE lastReadPos + BufferSize)

InitReader == reader = [on |-> TRUE, file |-> <<>>, lastReadPos |-> 0, eventsCache |-> <<>>]

ReaderFrame ==
    UNCHANGED <<agents, disk, log, mtime, proc, clock, call, ctorInit, scans, last,
                arg, res, chain, cli, monitor>>

\* The child appends the next n bytes of its output to the log.
ChildWrite(n) ==
    /\ reader.on
    /\ Len(reader.file) + n <= MaxBytes
    /\ reader' = [reader EXCEPT
          !.file = @ \o SubSeq(ChildOutput, Len(reader.file) + 1, Len(reader.file) + n)]
    /\ ReaderFrame

\* AgentProcess.readNewEvents over the bytes.
ReadBytes ==
    /\ reader.on
    /\ LET newContent == bytesAt(reader.file, reader.lastReadPos)
       IN /\ newContent # <<>>                       \* bytesRead === 0: return
          /\ reader' = [reader EXCEPT
                !.lastReadPos = @ + Len(newContent),
                !.eventsCache = @ \o parseContent(newContent)]
    /\ ReaderFrame

\* ---------------------------------------------------------------- stopByTask
\* The task names spawn is called with.
TaskNames == {"t1", "t2"}

\* The taskName of the spawn call that generated the id: the argument spawn
\* hands to new AgentProcess, saved as task_name and loaded back.
TaskOf(id) == IF id % 2 = 1 THEN "t1" ELSE "t2"

\* AgentManager.listByTask on a reconciled map: all.filter(a => a.taskName === taskName)
listByTask(taskName, ags) == {a \in DOMAIN ags : TaskOf(a) = taskName}

\* The arrays stopByTask has built so far, and the agents of its list it has
\* not gone over yet.
TaskProgress(taskName, todo, stopped, alreadyStopped) ==
    [done |-> FALSE, taskName |-> taskName, todo |-> todo, stopped |-> stopped,
     alreadyStopped |-> alreadyStopped]

\* The for loop goes over the list in the order of the map.
NextOf(todo) == CHOOSE a \in todo : \A other \in todo : a <= other

\* AgentManager.stopByTask up to its loop: listByTask, and the else branch
\* of every agent of the list (agent.status is read on the objects of the
\* list, which no later step of the call assigns to before their turn).
StopByTaskList(c, taskName) ==
    /\ Idle(c)
    /\ ~ctorInit
    /\ LET st1 == listAll(Store)
           listed == listByTask(taskName, st1.agents)
           running == listed \cap RunningIds(st1.agents)
       IN /\ Commit(st1)
          /\ arg' = [taskName |-> taskName, before |-> agents]
          /\ res' = TaskProgress(taskName, running, {}, listed \ running)
          /\ last' = Obs("stopByTask", NULL, "listed", st1)
    /\ call' = [call EXCEPT ![c] = [IdleCall EXCEPT !.pc = "task_loop"]]
    /\ UNCHANGED <<mtime, proc, clock, ctorInit, scans, chain, cli, monitor, reader>>

\* One turn of the loop on a running agent: this.stop(agent.agentId) up to
\* its grace window, and stopped.push(agentId) when it returned true at once.
StopByTaskStop(c) ==
    /\ call[c].pc = "task_loop"
    /\ res.todo # {}
    /\ LET id == NextOf(res.todo)
           st1 == initialize(Store)
           signalled == /\ id \in DOMAIN st1.agents
                        /\ st1.agents[id].pid # NULL
                        /\ st1.agents[id].status = AgentStatus.RUNNING
       IN IF ~signalled
          THEN /\ Commit(st1)
               /\ res' = [res EXCEPT !.todo = @ \ {id}]
               /\ last' = Obs("stopByTask", id, "false", st1)
               /\ UNCHANGED call
          ELSE IF isProcessAlive(st1.agents[id], st1)
          THEN /\ Commit(st1)
               /\ res' = res
               /\ call' = [call EXCEPT ![c] = [IdleCall EXCEPT !.pc = "task_grace", !.id = id]]
               /\ last' = Obs("stopByTask", id, "grace", st1)
          ELSE LET rec == MarkStopped(st1.agents[id])
                   st2 == [st1 EXCEPT !.agents[id] = rec,
                                      !.disk = Put(st1.disk, id, MetaOf(rec)),
                                      !.wrote = @ \cup {id}]
               IN /\ Commit(st2)
                  /\ res' = [res EXCEPT !.todo = @ \ {id}, !.stopped = @ \cup {id}]
                  /\ last' = Obs("stopByTask", id, "true", st2)
                  /\ UNCHANGED call
    /\ scans' = Bump(scans)
    /\ UNCHANGED <<mtime, proc, clock, ctorInit, arg, chain, cli, monitor, reader>>

\* The stop of one turn after its grace window: SIGKILL, status,
\* completedAt, saveMeta, return true, and stopped.push(agentId).
StopByTaskGrace(c) ==
    /\ call[c].pc = "task_grace"
    /\ LET id == call[c].id
           rec == MarkStopped(agents[id])
           st1 == [Store EXCEPT !.agents = Put(@, id, rec),
                                !.disk = Put(disk, id, MetaOf(rec)),
                                !.wrote = {id}]
       IN /\ proc' = [proc EXCEPT ![id] = IF Signalable(@) THEN "killed" ELSE @]
          /\ Commit(st1)
          /\ res' = [res EXCEPT !.todo = @ \ {id}, !.stopped = @ \cup {id}]
          /\ last' = Obs("stopByTask", id, "true", st1)
    /\ call' = [call EXCEPT ![c] = [IdleCall EXCEPT !.pc = "task_loop"]]
    /\ UNCHANGED <<mtime, clock, ctorInit, scans, arg, chain, cli, monitor, reader>>

\* return { stopped, alreadyStopped }
StopByTaskReturn(c) ==
    /\ call[c].pc = "task_loop"
    /\ res.todo = {}
    /\ res' = Done([stopped |-> res.stopped, alreadyStopped |-> res.alreadyStopped])
    /\ last' = Obs("stopByTask", NULL, "done", Store)
    /\ call' = [call EXCEPT ![c] = IdleCall]
    /\ UNCHANGED <<agents, disk, log, mtime, proc, clock, ctorInit, scans, arg, chain,
                   cli, monitor, reader>>

\* ---------------------------------------------------------------- specifications
\* The steps of the manager's calls other than spawn's launch, for callers
\* cs over the agent ids ids.
CallStep(cs, ids) ==
    \/ CtorInitialize
    \/ \E c \in cs : ListAll(c)
    \/ \E c \in cs, id \in ids : Get(c, id)
    \/ \E c \in cs, cliOK \in BOOLEAN, cwdOK \in BOOLEAN : SpawnAdmit(c, cliOK, cwdOK)
    \/ \E c \in cs, id \in ids : StopBegin(c, id)
    \/ \E c \in cs : StopFinish(c)

\* The steps of the manager's calls, a launch ending in one of outcomes for
\* a call whose cwd is one of cwds.
ManagerStep(cs, ids, outcomes, cwds) ==
    \/ CallStep(cs, ids)
    \/ \E c \in cs, id \in ids, outcome \in outcomes, cwd \in cwds :
          SpawnLaunch(c, id, outcome, cwd)

\* The steps of the children, writing lines of the kinds ks, with an own
\* timestamp or not as in tss, and closing their log with one of ss.
ChildStep(ids, ks, tss, ss) ==
    \/ \E id \in ids, kind \in ks, ownTs \in tss : ChildAppend(id, kind, ownTs)
    \/ \E id \in ids, sentinel \in ss : ChildExit(id, sentinel)
    \/ \E id \in ids : ProcessGone(id)

\* Manager scope: calls in flight at the same time, children that report
\* success or exit silently, within one tick of the clock.
Next ==
    \/ ManagerStep(Callers, 1..NumLive, {"ok", "fail"}, {"here"})
    \/ ChildStep(1..NumLive, {"success"}, {FALSE}, {"none"})

Spec == Init /\ [][Next]_vars

\* Record scope: one record under one caller at a time, its child writing
\* every kind of line, the clock advancing, the manager process restarting.
NextRecord ==
    \/ ManagerStep({1}, {1}, {"ok", "nopid", "fail"}, Cwds)
    \/ ChildStep({1}, ChildKinds, BOOLEAN, SentinelKinds \cup {"none"})
    \/ Tick
    \/ Restart

SpecRecord == Init /\ [][NextRecord]_vars

\* Retention scope: one caller spawning and stopping over every agent id,
\* the children exiting silently, the clock advancing.
NextRetention ==
    \/ ManagerStep({1}, AgentIds, {"ok"}, {"here"})
    \/ \E id \in AgentIds : ChildExit(id, "none")
    \/ \E id \in AgentIds : ProcessGone(id)
    \/ Tick

SpecRetention == Init /\ [][NextRetention]_vars

\* Id scope: one caller whose spawns generate any id.
NextIds ==
    \/ CallStep({1}, 1..NumLive)
    \/ \E id \in 1..NumLive : SpawnLaunchAnyId(1, id, "ok", "here")
    \/ \E id \in 1..NumLive : ChildExit(id, "none")
    \/ \E id \in 1..NumLive : ProcessGone(id)

SpecIds == Init /\ [][NextIds]_vars

\* Meta scope: one record constructed, saved and loaded back.
InitMeta == InitStore /\ arg \in MetaArgs /\ res = Pending /\ chain = NoChain
    /\ InitOutside

NextMeta == SaveAndLoad

SpecMeta == InitMeta /\ [][NextMeta]_vars

\* Reply scope: records spawned, their session ids read from their output,
\* and replies to them.
InitReply == InitStore /\ arg = NULL /\ res = Pending /\ chain = NoChain
    /\ InitOutside

NextReply ==
    \/ \E id \in AgentIds, agentType \in ChainKinds, taskName \in {"t1", "t2"},
          mode \in {"plan", "ralph"} : ChainSpawn(id, agentType, taskName, mode)
    \/ \E id \in AgentIds : ExtractSession(id, "session-" \o ToString(id))
    \/ \E o \in AgentIds, id \in AgentIds : Reply(o, id)

SpecReply == InitReply /\ [][NextReply]_vars

\* The catch branch of readNewEvents over every agent kind, platform and line.
InitCatch == InitStore /\ arg \in CatchArgs /\ res = Pending /\ chain = NoChain
    /\ InitOutside
NextCatch == ReadUnparsable
SpecCatch == InitCatch /\ [][NextCatch]_vars

\* buildCommand over every agent kind, mode, working directory and template.
InitCommand == InitStore /\ arg \in CommandArgs /\ res = Pending /\ chain = NoChain
    /\ InitOutside
NextCommand == BuildCommand
SpecCommand == InitCommand /\ [][NextCommand]_vars

\* runWaitCommand of the status command line over a directory of two entries.
InitWait == InitStore /\ arg = NULL /\ res = Pending /\ chain = NoChain
    /\ InitCli /\ monitor = Off /\ reader = Off
WaitProgram == WaitCalled \/ WaitSleep \/ WaitPoll \/ WaitReturn
NextWait ==
    \/ WaitProgram
    \/ \E pid \in CliPids : CliProcessExit(pid)
    \/ \E e \in CliEntries, status \in {"completed", "failed"} : CliMetaSettled(e, status)
SpecWait == InitWait /\ [][NextWait]_vars /\ WF_vars(WaitProgram)

\* The completion monitor over a directory of two entries.
InitMonitoring == InitStore /\ arg = NULL /\ res = Pending /\ chain = NoChain
    /\ cli = Off /\ InitMonitor /\ reader = Off
MonitorProgram ==
    \/ MonitorStart
    \/ \E p \in MonitorSlots : PollFire(p) \/ PollRead(p) \/ PollProcess(p)
    \/ \E p \in MonitorSlots, ok \in BOOLEAN : PollSent(p, ok)
NextMonitor ==
    \/ MonitorProgram
    \/ \E e \in MonitorIds : AgentSpawned(e)
    \/ \E e \in MonitorIds, status \in {"completed", "failed"} : AgentSettled(e, status)
SpecMonitor == InitMonitoring /\ [][NextMonitor]_vars /\ WF_vars(MonitorProgram)

\* The child writing its log and readNewEvents reading it, byte by byte.
InitReading == InitStore /\ arg = NULL /\ res = Pending /\ chain = NoChain
    /\ cli = Off /\ monitor = Off /\ InitReader
NextReading == (\E n \in 1..3 : ChildWrite(n)) \/ ReadBytes
SpecReading == InitReading /\ [][NextReading]_vars

\* Task scope: one caller spawning agents under the task of their id and
\* stopping a task, the children exiting silently or their launch failing.
InitTask == InitStore /\ arg = NULL /\ res = Pending /\ chain = NoChain /\ InitOutside

StopByTask(c) ==
    \/ \E taskName \in TaskNames : StopByTaskList(c, taskName)
    \/ StopByTaskStop(c)
    \/ StopByTaskGrace(c)
    \/ StopByTaskReturn(c)

NextTask ==
    \/ CtorInitialize
    \/ \E cliOK \in BOOLEAN, cwdOK \in BOOLEAN : SpawnAdmit(1, cliOK, cwdOK)
    \/ \E id \in AgentIds, outcome \in {"ok", "nopid"} : SpawnLaunch(1, id, outcome, "here")
    \/ StopByTask(1)
    \/ \E id \in AgentIds : ChildExit(id, "none")
    \/ \E id \in AgentIds : ProcessGone(id)

SpecTask == InitTask /\ [][NextTask]_vars

\* ---------------------------------------------------------------- claims
\* The records present in the map before and after a step.
Kept == DOMAIN agents \cap DOMAIN agents'

\* A manager call returned in this step (a spawn at its admission and a stop
\* entering its grace window are suspended, not returned).
Returned(ops) == last'.op \in ops /\ last'.result \notin {"admitted", "grace"}

\* C1: whatever the interleaving of the spawn calls in flight, the number of
\* records with status running never exceeds maxConcurrent.
C1_RunningWithinLimit == Cardinality(RunningIds(agents)) <= maxConcurrent

\* No spawn call is suspended between its admission and its launch.
C2_Sequential == \A c \in Callers : call[c].pc # "spawn_admitted"

C2_AdmitStep ==
    (last'.op = "spawn" /\ last'.id = NULL /\ C2_Sequential) =>
        /\ (last'.result = "ConcurrencyLimitExceeded")
              <=> (Cardinality(RunningIds(agents')) >= maxConcurrent)
        /\ last'.result = "ConcurrencyLimitExceeded" =>
              /\ DOMAIN agents' \subseteq DOMAIN agents \cup DOMAIN disk
              /\ DOMAIN disk' \subseteq DOMAIN disk
              /\ \A c \in Callers : call'[c].pc # "spawn_admitted"
        /\ (last'.result = "admitted")
              <=> (Cardinality(RunningIds(agents')) < maxConcurrent /\ last'.inputOk)
        /\ last'.result = "admitted" => \E c \in Callers : call'[c].pc = "spawn_admitted"

C2_LaunchStep ==
    (last'.op = "spawn" /\ last'.id # NULL) =>
        \/ /\ last'.result = "ok"
           /\ last'.id \in DOMAIN agents' \ DOMAIN agents
           /\ agents'[last'.id].status = AgentStatus.RUNNING
           /\ last'.id \in DOMAIN disk'
           /\ disk'[last'.id].status = AgentStatus.RUNNING
        \/ /\ last'.result = "SpawnFailure"
           /\ agents' = agents /\ disk' = disk

\* C2: with no other spawn in flight, a spawn is refused with
\* ConcurrencyLimitExceeded exactly when maxConcurrent records are running;
\* the refused call adds no record and no agent directory; a spawn that is
\* not refused (CLI available, cwd valid, launch not failing) returns a record
\* with status running, registered and persisted.
C2_SpawnAtLimit == [][C2_AdmitStep /\ C2_LaunchStep]_vars

\* C2 witness: a spawn has just been refused at the limit, after an earlier
\* spawn succeeded and its record is still running.
C2_Witness ==
    /\ last.op = "spawn"
    /\ last.result = "ConcurrencyLimitExceeded"
    /\ \E a \in DOMAIN agents : agents[a].status = AgentStatus.RUNNING /\ proc[a] = "alive"
    /\ Cardinality(DOMAIN agents) = maxConcurrent

\* C3: once a record's status is completed, failed or stopped, no step
\* changes it.
C3_TerminalIsFinal ==
    [][\A a \in Kept : agents[a].status # AgentStatus.RUNNING =>
            agents'[a].status = agents[a].status]_vars

\* C4: completed_at is assigned at the step that takes the status out of
\* running, and once assigned no step changes it.
C4_CompletedAtOnce ==
    [][\A a \in Kept :
          /\ agents[a].completedAt # NULL => agents'[a].completedAt = agents[a].completedAt
          /\ (agents[a].status = AgentStatus.RUNNING /\ agents'[a].status # AgentStatus.RUNNING)
                => agents[a].completedAt = NULL /\ agents'[a].completedAt # NULL]_vars

\* C5: for every record of the map, completed_at is non-null if and only if
\* the status is not running.
C5_CompletedAtIffTerminal ==
    \A a \in DOMAIN agents :
        (agents[a].completedAt # NULL) <=> (agents[a].status # AgentStatus.RUNNING)

\* The log holds no terminal record and no exit-code sentinel.
NoTerminalLine(lines) ==
    \A i \in 1..Len(lines) : lines[i].kind \notin {"success", "error"} \cup SentinelKinds

\* C6: when listAll reconciles a running record whose process is gone and
\* whose log holds no terminal record and no sentinel, the record becomes
\* completed, with completed_at the latest event timestamp, else the start
\* time, else the current time.
C6_DeadProcessCompleted ==
    [][\A a \in Kept :
          (/\ last'.op = "listAll"
           /\ agents[a].status = AgentStatus.RUNNING
           /\ agents[a].pid # NULL
           /\ proc[agents[a].pid] = "dead"
           /\ NoTerminalLine(log[a]))
          => /\ agents'[a].status = AgentStatus.COMPLETED
             /\ agents'[a].completedAt =
                    (IF getLatestEventTime(agents'[a]) # NULL
                     THEN getLatestEventTime(agents'[a])
                     ELSE IF agents[a].startedAt # NULL THEN agents[a].startedAt
                     ELSE clock)]_vars

\* The step reads the log of record a up to its end, the last line being the
\* exit-code sentinel, the record having status running before the step.
C7_ReadsSentinel(a) ==
    /\ agents[a].status = AgentStatus.RUNNING
    /\ agents[a].lastReadPos < Len(log[a])
    /\ log[a][Len(log[a])].kind \in SentinelKinds
    /\ log' = log
    /\ agents'[a].lastReadPos = Len(log[a])

\* C7: when a step parses the exit-code sentinel of a running record, the
\* record's status becomes completed for exit code 0 and failed for a
\* nonzero exit code.
C7_SentinelDecidesStatus ==
    [][\A a \in Kept : C7_ReadsSentinel(a) =>
          agents'[a].status = (IF log[a][Len(log[a])].kind = "exit0"
                               THEN AgentStatus.COMPLETED ELSE AgentStatus.FAILED)]_vars

\* C7 witness: listAll has read a log that ends with a nonzero exit-code
\* sentinel after a success record, and the record is failed.
C7_Witness ==
    /\ last.op = "listAll"
    /\ \E a \in DOMAIN agents :
          /\ Len(log[a]) = 2
          /\ log[a][1].kind = "success"
          /\ log[a][2].kind = "exit1"
          /\ agents[a].lastReadPos = 2
          /\ agents[a].status = AgentStatus.FAILED

\* C8: a listAll that directly follows a listAll, nothing having been
\* appended to any log in between, changes no field of any record (so adds
\* no event to a cache) and writes no record file.
C8_ReconcileIdempotent ==
    [][(last'.op = "listAll" /\ last'.repeat) =>
          agents' = agents /\ last'.wrote = {}]_vars

\* C9: when a manager call returns, every record whose status, completed_at
\* or pid the call set or changed in memory has the same status, completed_at
\* and pid in its persisted record file.
C9_PersistedMatchesMemory ==
    [][Returned({"spawn", "stop", "get", "listAll"}) =>
          \A a \in ChangedCore(agents, agents') :
              /\ a \in DOMAIN disk'
              /\ disk'[a].status = agents'[a].status
              /\ disk'[a].completed_at = agents'[a].completedAt
              /\ disk'[a].pid = agents'[a].pid]_vars

\* C10: one manager instance runs the startup scan at most once, however
\* often the constructor and later spawn, get and stop calls trigger
\* initialization.
C10_ScanOnce == scans <= 1

\* The step is a stop(a) call starting (no stop call ends its grace window).
StopCalled(a) ==
    /\ last'.op = "stop"
    /\ last'.id = a
    /\ \A c \in Callers : call[c].pc = "stop_grace" => call'[c].pc = "stop_grace"

\* C11: stop(a) on a record that is already completed, failed or stopped
\* returns false, sends no signal, and leaves the record's status,
\* completed_at, pid and persisted file as they were.
C11_StopTerminalNoOp ==
    [][\A a \in DOMAIN agents :
          (StopCalled(a) /\ agents[a].status # AgentStatus.RUNNING) =>
              /\ last'.result = "false"
              /\ proc' = proc
              /\ a \in DOMAIN agents'
              /\ Core(agents'[a]) = Core(agents[a])
              /\ a \in DOMAIN disk => a \in DOMAIN disk' /\ disk'[a] = disk[a]]_vars

\* C12: stop(a) on a running record with a pid waits out the grace window
\* before any forceful kill, which is sent only to a process still alive
\* then; and when the call returns true the record is stopped, with
\* completed_at set, in the map and in its persisted file.
C12_StopMarksStopped ==
    [][\A a \in AgentIds :
          /\ StopCalled(a) =>
                /\ proc' = proc
                /\ (a \in DOMAIN agents' /\ agents'[a].status = AgentStatus.RUNNING
                      /\ agents'[a].pid # NULL) => last'.result = "grace"
          /\ (proc[a] # "killed" /\ proc'[a] = "killed")
                => /\ proc[a] = "alive"
                   /\ \E c \in Callers : call[c].pc = "stop_grace" /\ call[c].id = a
                                         /\ call'[c].pc = "idle"
          /\ (last'.op = "stop" /\ last'.id = a /\ last'.result = "true")
                => /\ a \in DOMAIN agents' /\ a \in DOMAIN disk'
                   /\ agents'[a].status = AgentStatus.STOPPED
                   /\ agents'[a].completedAt # NULL
                   /\ disk'[a].status = AgentStatus.STOPPED
                   /\ disk'[a].completed_at = agents'[a].completedAt]_vars

\* Record rec of id a is reconciled: it is not running while its log holds a
\* terminal record or an exit-code sentinel, or while the process it tracks
\* is gone.
Reconciled(a, rec) ==
    rec.status = AgentStatus.RUNNING =>
        /\ NoTerminalLine(log[a])
        /\ rec.pid # NULL => Signalable(proc[rec.pid])

SpawnReturned == last'.op = "spawn" /\ last'.result = "ok"

\* C14: when spawn returns a record, the record's meta.json is in the store
\* under its agent_id with status running and the pid of the launched
\* process, and the map holds the record, running and with that pid.
C14_SpawnPersistsRecord ==
    [][SpawnReturned =>
          LET id == last'.id
          IN /\ id \in DOMAIN disk'
             /\ id \in last'.wrote
             /\ disk'[id].status = "running"
             /\ Signalable(proc'[id]) => disk'[id].pid = id
             /\ id \in DOMAIN agents'
             /\ agents'[id].status = AgentStatus.RUNNING
             /\ agents'[id].pid = disk'[id].pid]_vars

C14_Witness ==
    /\ last.op = "spawn" /\ last.result = "ok"
    /\ last.id \in DOMAIN disk /\ last.id \in DOMAIN agents
    /\ disk[last.id].pid = last.id /\ proc[last.id] = "alive"

\* spawn raised an error after the concurrency check let the call through.
SpawnRaised ==
    /\ last'.op = "spawn"
    /\ last'.result \in {"CliNotAvailable", "InvalidWorkingDirectory", "SpawnFailure"}

\* spawn came back, with a record or an error, from a launch that left no
\* child process.
LaunchedNothing ==
    /\ last'.op = "spawn" /\ last'.id # NULL
    /\ ~Signalable(proc'[last'.id])

\* C15: a spawn that fails after admission raises its error and leaves no
\* record and no agent directory of the call, and no more running records
\* than before; a spawn whose OS launch fails is such a failure.
C15_SpawnFailureLeavesNothing ==
    [][/\ SpawnRaised =>
            /\ DOMAIN disk' \subseteq DOMAIN disk \cup DOMAIN agents
            /\ DOMAIN agents' \subseteq DOMAIN agents \cup DOMAIN disk
            /\ last'.id # NULL => last'.id \notin DOMAIN agents' \cup DOMAIN disk'
            /\ Cardinality(RunningIds(agents')) <= Cardinality(RunningIds(agents))
       /\ LaunchedNothing =>
            /\ last'.result = "SpawnFailure"
            /\ last'.id \notin DOMAIN agents' \cup DOMAIN disk']_vars

\* The records a step removed from the map.
Evicted == DOMAIN agents \ DOMAIN agents'

\* The completion time cleanupOldAgents sorts record a by: the one its
\* listCompleted reconciles the record to.
EvictionKey(a) == SortKey(Reconcile(a, agents[a], Store).rec)

Deleted(a) ==
    /\ last'.op # "none"
    /\ \/ a \in DOMAIN disk /\ a \notin DOMAIN disk'
       \/ a \in DOMAIN agents /\ a \notin DOMAIN agents'

\* The persisted record of a is terminal and completed before the cutoff.
PastRetentionWindow(a) ==
    /\ a \in DOMAIN disk
    /\ disk[a].status # "running"
    /\ disk[a].completed_at # NULL
    /\ disk[a].completed_at < clock - cleanupAgeDays

\* The record of a, reconciled, is one of the terminal records beyond
\* maxAgents that the retention of a returning spawn removes.
BeyondMaximum(a) ==
    /\ SpawnReturned
    /\ a \in DOMAIN agents
    /\ Reconcile(a, agents[a], Store).rec.status # AgentStatus.RUNNING
    /\ Cardinality(CompletedIds(agents')) = maxAgents

\* C17: no step of the manager deletes a record or its directory while the
\* record is running; what it deletes is terminal and either completed
\* before the retention window or beyond the maximum count.
C17_DeletesOnlyTerminal ==
    [][\A a \in AgentIds :
          Deleted(a) =>
             /\ PastRetentionWindow(a) \/ BeyondMaximum(a)
             /\ a \in DOMAIN agents' => agents'[a].status # AgentStatus.RUNNING]_vars

\* The persisted record of a is one the startup scan keeps: its cwd is the
\* manager's scope and its completed_at is not before the cutoff.
InScope(a) ==
    /\ a \in DOMAIN disk
    /\ disk[a].cwd = filterByCwd
    /\ ~(disk[a].completed_at # NULL /\ disk[a].completed_at < clock - cleanupAgeDays)

\* The first scan of a newly constructed manager completes in this step.
StartupScan == last'.op = "initialize" /\ scans = 0

\* C18: after the startup scan the map holds exactly the persisted records
\* in scope, and no later get or listAll adds a record out of scope.
C18_MapHoldsScopeOnly ==
    [][/\ StartupScan => \A a \in AgentIds : a \in DOMAIN agents' <=> InScope(a)
       /\ Returned({"get", "listAll"}) =>
             \A a \in DOMAIN agents' \ DOMAIN agents : InScope(a)]_vars

\* C19: the agent_id a spawn generates is the id of no record in the map or
\* in the store, so that a spawn overwrites no record and reuses no
\* directory.
C19_GeneratedIdIsNew ==
    [][SpawnReturned => last'.id \notin DOMAIN agents \cup DOMAIN disk]_vars

\* A step loaded the record of a from its meta.json into a map that did not
\* hold it, the persisted status being terminal.
LoadedTerminal(a) ==
    /\ last'.op # "none"
    /\ a \notin DOMAIN agents /\ a \in DOMAIN agents'
    /\ a \in DOMAIN disk /\ disk[a].status # "running"

\* C20: a record persisted as completed, failed or stopped is reloaded with
\* the same status and the same completed_at.
C20_ReloadKeepsTerminal ==
    [][\A a \in AgentIds :
          LoadedTerminal(a) =>
             /\ agents'[a].status = disk[a].status
             /\ agents'[a].completedAt = disk[a].completed_at]_vars

\* The properties of the record the round trip of C21 is about.
ChainProperties ==
    {"sessionId", "conversationTurn", "originalAgentId", "replyAgentIds",
     "workspaceDir", "parentSessionId"}

\* C21: a record saved with saveMeta and loaded back with loadFromDisk has
\* the session_id, conversation_turn, original_agent_id, reply_agent_ids,
\* workspace_dir and parent_session_id it was constructed with.
C21_MetaRoundTrip ==
    res.done =>
        \A k \in ChainProperties : k \in DOMAIN res.out /\ res.out[k] = arg[k]

\* C22: a record saved and loaded back has the mode it was spawned with,
\* for plan, edit and ralph.
C22_ModeRoundTrip == res.done => res.out.mode = arg.mode

\* reply returned or raised in this step.
ReplyReturned == res'.done /\ res'.out.op = "reply"

Range(seq) == {seq[i] : i \in DOMAIN seq}

\* Every record names as its original the record whose replies name it.
ChainSymmetric(ags) ==
    \A r \in DOMAIN ags, o \in DOMAIN ags :
        (ags[r].originalAgentId = o) <=> (r \in Range(ags[o].replyAgentIds))

\* meta.json holds value under key.
Persisted(meta, key, value) == key \in DOMAIN meta /\ meta[key] = value

\* C23: a successful reply to a record of turn N creates a record of turn
\* N+1 that names the original and has its task name, mode and working
\* directory; the original's reply_agent_ids holds the new id in memory and
\* in the store; afterwards a record names o as its original exactly when
\* o's reply_agent_ids holds its id.
C23_ReplyChains ==
    [][(ReplyReturned /\ res'.out.result = "ok") =>
          LET o == res'.out.original
              r == res'.out.id
              new == chain'.agents[r]
          IN /\ r \notin DOMAIN chain.agents
             /\ new.conversationTurn = chain.agents[o].conversationTurn + 1
             /\ new.originalAgentId = o
             /\ r \in Range(chain'.agents[o].replyAgentIds)
             /\ Persisted(chain'.disk[o], "reply_agent_ids",
                          chain'.agents[o].replyAgentIds)
             /\ new.taskName = chain.agents[o].taskName
             /\ new.mode = chain.agents[o].mode
             /\ new.cwd = chain.agents[o].cwd
             /\ Persisted(chain'.disk[r], "conversation_turn", new.conversationTurn)
             /\ Persisted(chain'.disk[r], "original_agent_id", o)
             /\ ChainSymmetric(chain'.agents)]_vars

EventLines(lines) == SelectSeq(lines, LAMBDA l : l.kind \notin SentinelKinds)

\* The event is the one the line of that kind yields.
EventOfLine(event, line) ==
    /\ event.type = "raw" <=> line.kind = "raw"
    /\ event.type = "result" <=> line.kind \in {"success", "error"}
    /\ event.type = "message" <=> line.kind = "msg"
    /\ line.ts # NULL => event.timestamp = line.ts

\* seq continues the sequence before.
IsPrefix(before, seq) ==
    Len(before) <= Len(seq) /\ SubSeq(seq, 1, Len(before)) = before

C26_CacheOnlyGrows ==
    [][\A a \in Kept :
          last'.op # "none" => IsPrefix(agents[a].eventsCache, agents'[a].eventsCache)]_vars

\* The lines that set a status: terminal structured records and sentinels.
Deciding(lines) ==
    SelectSeq(lines, LAMBDA l : l.kind \in {"success", "error"} \cup SentinelKinds)

\* C27: a read of a running record whose last status-setting line is a
\* structured terminal event leaves the record completed for a success
\* discriminator and failed for an error discriminator, with completed_at
\* the event's own timestamp when it has one and the log file's
\* last-modified time otherwise.
C27_TerminalEventSettles ==
    [][\A a \in Kept :
          LET old == agents[a]
              new == agents'[a]
              parsed == Deciding(SubSeq(log[a], old.lastReadPos + 1, new.lastReadPos))
          IN (/\ last'.op = "listAll"
              /\ old.status = AgentStatus.RUNNING
              /\ old.lastReadPos <= Len(log[a])
              /\ parsed # <<>>
              /\ parsed[Len(parsed)].kind \in {"success", "error"}) =>
                LET event == parsed[Len(parsed)]
                IN /\ new.status = IF event.kind = "success" THEN AgentStatus.COMPLETED
                                    ELSE AgentStatus.FAILED
                   /\ new.completedAt = IF event.ts # NULL THEN event.ts ELSE mtime[a]]_vars

\* C27 witness: a success event stamped 0 was read from a log last modified
\* at 1, and the record is completed at 0.
C27_Witness ==
    /\ last.op = "listAll"
    /\ \E a \in DOMAIN agents :
          /\ Len(log[a]) = 2 /\ agents[a].lastReadPos = 2
          /\ log[a][1] = Line("success", 0) /\ log[a][2].kind = "raw"
          /\ mtime[a] = 1
          /\ agents[a].status = AgentStatus.COMPLETED
          /\ agents[a].completedAt = 0

\* A second case of C27: an error event without a timestamp of its own
\* fails the record at the log's last-modified time.
C27_WitnessError ==
    /\ last.op = "listAll"
    /\ \E a \in DOMAIN agents :
          /\ Len(log[a]) = 1 /\ agents[a].lastReadPos = 1
          /\ log[a][1] = Line("error", NULL)
          /\ agents[a].status = AgentStatus.FAILED
          /\ agents[a].completedAt = mtime[a]

\* The one event the read left has that type and carries the line's text.
OneEvent(out, type, line) ==
    Len(out) = 1 /\ out[1].type = type /\ out[1].content = line

\* The line is one of the gemini-on-Windows terminal-attachment noise lines.
NoiseCase ==
    /\ arg.agentType = "gemini" /\ arg.platform = "win32"
    /\ \/ "AttachConsole failed" \in Range(arg.text)
       \/ "conpty_console_list_agent" \in Range(arg.text)
       \/ {"@lydell", "node-pty"} \subseteq Range(arg.text)

\* C28 as stated: every line that is not blank and cannot be parsed yields
\* exactly one raw entry carrying its text, for every agent kind, except the
\* gemini-on-Windows noise lines, which yield no entry.
C28_UnparsableIsRaw ==
    (res.done /\ trim(arg.text) # <<>>) =>
        IF NoiseCase THEN res.out = <<>>
        ELSE OneEvent(res.out, "raw", trim(arg.text))

\* C28 amended: a line that is not blank and cannot be parsed yields exactly
\* one entry carrying its trimmed text and the log's last-modified time, a
\* complete message of the agent for the copilot kind and a raw entry for
\* every other kind, except the gemini-on-Windows noise lines, which yield
\* no entry.
C28_UnparsableIsKept ==
    (res.done /\ trim(arg.text) # <<>>) =>
        IF NoiseCase THEN res.out = <<>>
        ELSE /\ OneEvent(res.out, IF arg.agentType = "copilot" THEN "message" ELSE "raw",
                         trim(arg.text))
             /\ res.out[1].timestamp = arg.fallbackTimestamp
             /\ arg.agentType = "copilot" => res.out[1].complete /\ res.out[1].agent = "copilot"

\* C28 witness: a copilot line read as a message, its surrounding white
\* space removed.
C28_Witness ==
    /\ res.done
    /\ arg.agentType = "copilot" /\ arg.text = <<Blank, "oops">>
    /\ OneEvent(res.out, "message", <<"oops">>)

\* The override template is not blank and holds no prompt marker.
NoMarkerCase == trim(arg.command) # <<>> /\ Marker \notin Range(arg.command)

\* A quote of the template is left open.
Unterminated(text) == Cardinality({i \in 1..Len(text) : text[i] = Quote}) % 2 = 1

\* The call failed with a message naming the agent kind and the marker.
NamesKindAndMarker(out) ==
    out.threw /\ arg.agentType \in Range(out.message) /\ Marker \in Range(out.message)

\* C29 as stated: for every agent kind, compiling a command from a template
\* without the prompt marker fails with an error whose message names the
\* agent kind and the marker, and gives no argv.
C29_NoMarkerNamesKindAndMarker ==
    (res.done /\ NoMarkerCase) => NamesKindAndMarker(res.out)

\* C29 amended: compiling a command from a template without the prompt marker
\* gives no argv; it fails with an error naming the agent kind and the marker
\* when the quotes of the template are closed, and with an error about the
\* unterminated quote, quoting the template, when one is left open.
C29_NoMarkerFails ==
    (res.done /\ NoMarkerCase) =>
        /\ res.out.threw
        /\ IF Unterminated(arg.command)
           THEN res.out.message =
                    <<"Unterminated quote in command template: ">> \o trim(arg.command)
           ELSE NamesKindAndMarker(res.out)

\* C29 witness: the gemini template "my-cli codex" has no marker and the
\* call failed naming gemini and the marker.
C29_Witness ==
    /\ res.done
    /\ arg.agentType = "gemini" /\ arg.command = <<"my-cli", Blank, "codex">>
    /\ NamesKindAndMarker(res.out)

\* The names the agent kind's own executable goes by, as arguments.
OwnExecutables == {Tok(name) : name \in ExecutableNames[arg.agentType]}

\* The argv the override template spells out.
TemplateArgv == splitCommandTemplate(trim(arg.command)).cmd

\* The override template compiles and its first token is not an executable
\* of the agent kind.
CustomCase ==
    /\ trim(arg.command) # <<>>
    /\ ~Unterminated(arg.command)
    /\ Marker \in Range(arg.command)
    /\ TemplateArgv[1] \notin OwnExecutables

\* C30: for every agent kind, mode and model, when the first token of the
\* override template is not an executable name of the kind, the argv is the
\* tokens of the template with the marker replaced by the prompt: nothing
\* is added, removed or moved.
C30_CustomCommandVerbatim ==
    (res.done /\ CustomCase) =>
        /\ ~res.out.threw
        /\ res.out.cmd =
             [i \in DOMAIN TemplateArgv |->
                replaceAll(TemplateArgv[i], FullPrompt(arg.agentType, arg.prompt, arg.mode))]

\* C30 witness: gemini in edit mode with the template "my-cli {prompt}"
\* compiled to those two arguments.
C30_Witness ==
    /\ res.done
    /\ arg.agentType = "gemini" /\ arg.mode = "edit"
    /\ arg.command = <<"my-cli", Blank, Marker>>
    /\ ~res.out.threw
    /\ res.out.cmd = <<Tok("my-cli"), <<"write tests", "PROMPT_SUFFIX">>>>

\* The arguments that grant write access, approve actions by themselves or
\* bypass approvals or the sandbox.
GrantingFlags ==
    {Tok(f) : f \in {"--dangerously-bypass-approvals-and-sandbox", "--full-auto", "--yolo",
                     "-f", "--dangerously-skip-permissions", "acceptEdits",
                     "--allow-all-tools", "--allow-all-paths", "--no-ask-user"}}

\* The command is launched through the agent kind's own executable.
OwnCliCase == ~res.out.threw /\ res.out.cmd[1] \in OwnExecutables

\* C31: for every agent kind launched through its recognised executable, the
\* argv compiled for plan mode holds no argument that grants write access,
\* approves actions by itself or bypasses approvals or the sandbox, and the
\* claude argv carries --permission-mode plan.
C31_PlanGrantsNothing ==
    (res.done /\ arg.mode = "plan" /\ OwnCliCase) =>
        /\ Range(res.out.cmd) \cap GrantingFlags = {}
        /\ arg.agentType = "claude" =>
              \E i \in 1..(Len(res.out.cmd) - 1) :
                 res.out.cmd[i] = Tok("--permission-mode") /\ res.out.cmd[i + 1] = Tok("plan")

\* What the query that has just run reports for every entry of the task.
ReportedAsRecorded ==
    \A e \in CliEntries :
       LET meta == cli.dir[e]
       IN (meta.ok /\ meta.task_name = cli.task) =>
             /\ e \in DOMAIN cli'.agents
             /\ cli'.agents[e] =
                  IF meta.status = "running" /\ meta.pid # NULL /\ meta.pid \notin cli.alive
                  THEN "completed"
                  ELSE meta.status

\* C32: for every task, the status query reports an agent recorded running
\* with a live pid as running, an agent recorded running whose pid does not
\* exist as completed, and an agent recorded terminal with that status.
C32_QueryReportsLiveness ==
    [][cli.pc \in {"called", "woke"} /\ cli'.pc = "test" => ReportedAsRecorded]_vars

\* C32 witness: of two agents of the task recorded running, the query has
\* reported the one with the live pid running and the other completed.
C32_Witness ==
    /\ cli.on /\ cli.pc = "test"
    /\ cli.dir["a1"] = Meta("t1", "running", 1) /\ cli.dir["a2"] = Meta("t1", "running", 2)
    /\ cli.alive = {1}
    /\ cli.agents = [e \in CliEntries |-> IF e = "a1" THEN "running" ELSE "completed"]

\* The wait the call asked for, capped at the maximum.
CappedTimeout == IF cli.timeout > 600000 THEN 600000 ELSE cli.timeout

\* C33: runWaitCommand always returns; it returns without sleeping when its
\* first query reports no running agent, it sleeps one poll interval at a
\* time and only while an agent is reported running and the deadline (the
\* timeout asked for, capped at 600000 ms) has not passed, and when it
\* returns timed_out is true exactly when its last query reports a running
\* agent.
C33_WaitTerminates ==
    /\ <>(cli.pc = "returned")
    /\ [][/\ (cli.pc = "test" /\ runningCount(cli.agents) = 0) =>
                (cli'.pc = "returned" /\ cli'.now = cli.now)
          /\ cli'.now # cli.now =>
                /\ cli'.now = cli.now + 1000
                /\ runningCount(cli.agents) > 0
                /\ cli.now < CappedTimeout]_vars
    /\ [](cli.pc = "returned" =>
            /\ cli.timed_out <=> runningCount(cli.agents) > 0
            /\ runningCount(cli.agents) = 0 \/ cli.now >= CappedTimeout)

\* C33 witness: a wait of 700000 ms asked for returned at 600000 ms with an
\* agent still running.
C33_Witness ==
    cli.on /\ cli.pc = "returned" /\ cli.timeout = 700000 /\ cli.now = 600000 /\ cli.timed_out

\* A second case of C33: the wait returned without a sleep, nothing running.
C33_WitnessAtOnce ==
    cli.on /\ cli.pc = "returned" /\ cli.now = 0 /\ ~cli.timed_out
      /\ cli.dir["a1"].status = "running"

\* A callback resumes in this step with the record of entry e it has read.
Examines(p, e) ==
    /\ monitor.slot[p].pc = "have" /\ monitor'.slot[p] # monitor.slot[p]
    /\ Head(monitor.slot[p].todo) = e
    /\ monitor.slot[p].content # "null"

\* C34: a callback of the monitor sends a notification for an agent if and
\* only if the status the monitor remembered for it was running and the
\* status read from its record is not running; no agent that was terminal
\* when the monitor started is notified, and no agent is notified more than
\* once, even when callbacks overlap.
C34_NotifiesOncePerTransition ==
    /\ [][\A e \in MonitorIds :
            /\ monitor'.note = e =>
                  \E p \in MonitorSlots : Examines(p, e)
            /\ \A p \in MonitorSlots :
                  Examines(p, e) =>
                     (monitor'.note = e <=>
                        /\ e \in DOMAIN monitor.known
                        /\ monitor.known[e] = "running"
                        /\ monitor.slot[p].content # "running")]_vars
    /\ [](\A e \in MonitorIds :
            /\ monitor.sent[e] <= 1
            /\ (e \in DOMAIN monitor.initial /\ monitor.initial[e] # "running") =>
                  monitor.sent[e] = 0)

\* The entries a callback has still to examine after the one at hand.
Remaining(slot) == Tail(slot.todo)

\* C35: a notification send that throws, or a record file that is missing
\* or malformed, is swallowed: the callback goes on to the remaining entries
\* of its poll (it ends only when none is left), and later polls still run.
C35_MonitorSwallowsFailures ==
    [][\A p \in MonitorSlots :
          LET slot == monitor.slot[p]
              failedHere ==
                 \/ slot.pc = "read" /\ monitor.dir[Head(slot.todo)] \in {"missing", "garbage"}
                 \/ slot.pc = "have" /\ slot.content = "null"
                 \/ slot.pc = "send" /\ monitor'.slot[p].threw /\ ~slot.threw
          IN (monitor'.slot[p] # slot /\ failedHere) =>
                /\ monitor'.started
                /\ IF Remaining(slot) = <<>> THEN monitor'.slot[p].pc = "idle"
                   ELSE /\ monitor'.slot[p].pc = "read"
                        /\ monitor'.slot[p].todo = Remaining(slot)]_vars

\* The record of entry e shows a status other than running, which it did not
\* show when the monitor started.
EndedSinceStart(e) ==
    /\ monitor.started
    /\ monitor.dir[e] \in RecordStatuses \ {"running"}
    /\ ~(e \in DOMAIN monitor.initial /\ monitor.initial[e] # "running")

\* C39: every agent whose record shows a status other than running for the
\* first time after the monitor started is, from some moment on, notified
\* exactly once.
C39_EveryEndIsNotified ==
    \A e \in MonitorIds : [](EndedSinceStart(e) => <>[](monitor.sent[e] = 1))

\* The part of C39 that asks for a notification at all.
C39_SomeNotification ==
    \A e \in MonitorIds : [](EndedSinceStart(e) => <>(monitor.sent[e] >= 1))

\* C36: for every interleaving of the child's writes and the reads, once the
\* log is consumed to its end and ends with a whole line, the event cache is
\* what parsing the whole log once from the start gives.
C36_ReadsEqualOneParse ==
    (/\ reader.lastReadPos = Len(reader.file)
     /\ reader.file # <<>>
     /\ reader.file[Len(reader.file)] = Newline) =>
        reader.eventsCache = parseContent(reader.file)

\* C37: when the grace window of a stop call ends on a record that another
\* stop call or a reconciliation has meanwhile made terminal, the call does
\* not return true and leaves the status and completed_at of the record as
\* they are: they are assigned once.
C37_StopAssignsOnce ==
    [][\A c \in Callers :
          (call[c].pc = "stop_grace" /\ call'[c].pc # "stop_grace") =>
             LET id == call[c].id
             IN (id \in DOMAIN agents /\ agents[id].status # AgentStatus.RUNNING) =>
                   /\ last'.result # "true"
                   /\ id \in DOMAIN agents'
                   /\ agents'[id].status = agents[id].status
                   /\ agents'[id].completedAt = agents[id].completedAt]_vars

\* The record is terminal or has a live OS process.
TerminalOrLive(rec) ==
    rec.status = AgentStatus.RUNNING => (rec.pid # NULL /\ Signalable(proc[rec.pid]))

\* C38: after a reconciliation (get or a list operation) or a stop has
\* returned, no record it covered is running without a live OS process, a
\* record whose pid is null included.
C38_NoProcessNoRunning ==
    /\ last.op = "listAll" => \A a \in DOMAIN agents : TerminalOrLive(agents[a])
    /\ (last.op = "get" /\ last.result = "found") => TerminalOrLive(agents[last.id])
    /\ (last.op = "stop" /\ last.result \in {"true", "false"} /\ last.id \in DOMAIN agents) =>
          TerminalOrLive(agents[last.id])

\* What stopByTask returned covers the task: each of its records is in one
\* list and not in the other.
InOneList(a, out) == (a \in out.stopped) # (a \in out.alreadyStopped)

\* C40: stopByTask(task) reports every record of the task in exactly one of
\* its two result lists (stopped or alreadyStopped), leaves every record of
\* the task in a terminal state, and changes no field of any record of
\* another task.
C40_StopByTaskSettlesTask ==
    (last.op = "stopByTask" /\ last.result = "done") =>
        /\ \A a \in listByTask(arg.taskName, agents) :
              /\ InOneList(a, res.out)
              /\ agents[a].status # AgentStatus.RUNNING
        /\ \A a \in DOMAIN arg.before :
              TaskOf(a) # arg.taskName => (a \in DOMAIN agents /\ agents[a] = arg.before[a])

====
